---- MODULE Spec2Model ----
(***************************************************************************)
(* A model of lspls: the schema model (internal/model), the dependency     *)
(* resolver (generator.ResolveDeps) and the per-target type lowering of    *)
(* the Go, Kotlin, Groovy and proto generators.                            *)
(*                                                                         *)
(* Strings are TLC strings: concatenation is \o, and cmp.Compare is the    *)
(* bytewise order computed by Compare below.                               *)
(***************************************************************************)
EXTENDS Integers, Sequences, FiniteSets, TLC

VARIABLES
    model,       \* *model.Model handed to the generator
    config,      \* Config: Types, ResolveDeps, IncludeProposed
    typeFilter,  \* Generator.typeFilter (nil = all types)
    pc,          \* position inside Generate
    pending,     \* names of `for name := range filter` not yet visited
    stack,       \* pending calls of collectDeps / collectTypeRefs (call stack)
    expanded,    \* the map `expanded` of ResolveDeps (visited set)
    target,      \* which generator ran ("go", "kotlin", "groovy", "proto")
    types,       \* Generator.types (orderedMap of emitted declarations)
    orTypes,     \* Generator.orTypes / sealedTypes / unionTypes / pendingWrappers
    input,       \* the TypeNode handed to the lowering function
    result,      \* the lowered type string
    err,         \* the error the last call returned ("" = nil)
    output,      \* Output.Protocol / Output.Proto: the definitions written, in file order
    mu,          \* generator.mu, the sync.RWMutex of the registry
    registry,    \* generator.registry: name -> Generator
    gor          \* the goroutines calling the registry: their call and position in it

\* The state of one generator run.
genvars == <<model, config, typeFilter, pc, pending, stack, expanded, target,
             types, orTypes, input, result, err, output>>

\* The package-level state of the registry and its callers.
regvars == <<mu, registry, gor>>

vars == <<model, config, typeFilter, pc, pending, stack, expanded, target,
          types, orTypes, input, result, err, output, mu, registry, gor>>

-----------------------------------------------------------------------------
(* Strings *)

CharAt(s, i) == SubSeq(s, i, i)

\* Every character the model's strings use, in ASCII order.
AsciiOrder == " *,.0123456789<>?ABCDEFGHIJKLMNOPQRSTUVWXYZ[]_abcdefghijklmnopqrstuvwxyz"

CharCode(c) == CHOOSE i \in 1..Len(AsciiOrder) : CharAt(AsciiOrder, i) = c

\* cmp.Compare on strings: -1, 0 or 1 by bytewise lexicographic order.
Compare(a, b) ==
    LET n == IF Len(a) < Len(b) THEN Len(a) ELSE Len(b)
        diff == {i \in 1..n : CharAt(a, i) # CharAt(b, i)}
    IN  IF diff # {}
        THEN LET d == CHOOSE i \in diff : \A j \in diff : i <= j
             IN  IF CharCode(CharAt(a, d)) < CharCode(CharAt(b, d)) THEN -1 ELSE 1
        ELSE IF Len(a) < Len(b) THEN -1
        ELSE IF Len(a) > Len(b) THEN 1
        ELSE 0

LowerLetters == "abcdefghijklmnopqrstuvwxyz"
UpperLetters == "ABCDEFGHIJKLMNOPQRSTUVWXYZ"

\* unicode.ToUpper on one character.
ToUpper(c) ==
    IF \E i \in 1..Len(LowerLetters) : CharAt(LowerLetters, i) = c
    THEN CharAt(UpperLetters, CHOOSE i \in 1..Len(LowerLetters) : CharAt(LowerLetters, i) = c)
    ELSE c

\* strings.Contains
Contains(s, sub) ==
    \E i \in 1..(Len(s) - Len(sub) + 1) : SubSeq(s, i, i + Len(sub) - 1) = sub

\* strings.Join
RECURSIVE Join(_, _)
Join(elems, sep) ==
    IF Len(elems) = 0 THEN ""
    ELSE IF Len(elems) = 1 THEN elems[1]
    ELSE elems[1] \o sep \o Join(Tail(elems), sep)

\* unicode.ToLower on one character.
ToLower(c) ==
    IF \E i \in 1..Len(UpperLetters) : CharAt(UpperLetters, i) = c
    THEN CharAt(LowerLetters, CHOOSE i \in 1..Len(UpperLetters) : CharAt(UpperLetters, i) = c)
    ELSE c

\* unicode.IsUpper and unicode.IsLetter on one (ASCII) character.
IsUpper(c) == \E i \in 1..Len(UpperLetters) : CharAt(UpperLetters, i) = c
IsLetter(c) == IsUpper(c) \/ \E i \in 1..Len(LowerLetters) : CharAt(LowerLetters, i) = c

\* strings.HasPrefix and strings.TrimPrefix
HasPrefix(s, prefix) == Len(s) >= Len(prefix) /\ SubSeq(s, 1, Len(prefix)) = prefix
TrimPrefix(s, prefix) == IF HasPrefix(s, prefix) THEN SubSeq(s, Len(prefix) + 1, Len(s)) ELSE s

\* strings.ReplaceAll with a one-character pattern.
ReplaceAll(s, old, new) ==
    Join([i \in 1..Len(s) |-> IF CharAt(s, i) = old THEN new ELSE CharAt(s, i)], "")

\* lspbase.CamelToSnake
CamelToSnake(name) ==
    IF \A i \in 1..Len(name) : ~(~IsUpper(CharAt(name, i)) /\ IsLetter(CharAt(name, i)))
    THEN Join([i \in 1..Len(name) |-> ToLower(CharAt(name, i))], "")
    ELSE Join([i \in 1..Len(name) |->
                  IF IsUpper(CharAt(name, i))
                  THEN (IF i > 1 THEN "_" ELSE "") \o ToLower(CharAt(name, i))
                  ELSE CharAt(name, i)], "")

\* lspbase.CamelToScreamingSnake
CamelToScreamingSnake(name) ==
    IF \A i \in 1..Len(name) : ~(~IsUpper(CharAt(name, i)) /\ IsLetter(CharAt(name, i)))
    THEN Join([i \in 1..Len(name) |-> ToUpper(CharAt(name, i))], "")
    ELSE Join([i \in 1..Len(name) |->
                  (IF IsUpper(CharAt(name, i)) /\ i > 1 THEN "_" ELSE "")
                      \o ToUpper(CharAt(name, i))], "")

\* lspbase.ExportName
ExportName(name) ==
    IF name = "" THEN ""
    ELSE IF CharAt(name, 1) = "_" THEN "X" \o SubSeq(name, 2, Len(name))
    ELSE ToUpper(CharAt(name, 1)) \o SubSeq(name, 2, Len(name))

\* lspbase.Capitalize
Capitalize(name) ==
    IF name = "" THEN ""
    ELSE ToUpper(CharAt(name, 1)) \o SubSeq(name, 2, Len(name))

Range(f) == {f[i] : i \in DOMAIN f}

-----------------------------------------------------------------------------
(* internal/model: Type, Literal, Property, Structure, Enumeration, TypeAlias *)

\* A nil *Type, and the absent Value of a Type that carries none.
NilT == [kind |-> "nil"]

Type(kind, name, items, element, key, value) ==
    [kind |-> kind, name |-> name, items |-> items, element |-> element,
     key |-> key, value |-> value]

Base(name)    == Type("base", name, <<>>, NilT, NilT, NilT)
Ref(name)     == Type("reference", name, <<>>, NilT, NilT, NilT)
Array(elem)   == Type("array", "", <<>>, elem, NilT, NilT)
Map(key, val) == Type("map", "", <<>>, NilT, key, val)
Or(items)     == Type("or", "", items, NilT, NilT, NilT)
And(items)    == Type("and", "", items, NilT, NilT, NilT)
Tuple(items)  == Type("tuple", "", items, NilT, NilT, NilT)
Literal(properties) == [kind |-> "Literal", properties |-> properties]
Lit(properties)     == Type("literal", "", <<>>, NilT, NilT, Literal(properties))
StringLiteral(s)    == Type("stringLiteral", "", <<>>, NilT, NilT, [kind |-> "string", str |-> s])

Null == Base("null")

Property(name, type, optional, proposed) ==
    [name |-> name, type |-> type, optional |-> optional, proposed |-> proposed]

Structure(name, properties, extends, mixins, proposed) ==
    [name |-> name, properties |-> properties, extends |-> extends,
     mixins |-> mixins, proposed |-> proposed]

Enumeration(name, type, proposed) == [name |-> name, type |-> type, proposed |-> proposed]

TypeAlias(name, type, proposed) == [name |-> name, type |-> type, proposed |-> proposed]

\* The dynamic type of Type.Value: `t.Value.(*model.Type)` and `t.Value.(model.Literal)`.
IsTypeValue(v)    == v.kind \notin {"nil", "Literal", "string", "object"}
IsLiteralValue(v) == v.kind = "Literal"

\* Type.IsOptional
IsOptional(t) ==
    IF t.kind # "or" \/ Len(t.items) # 2 THEN FALSE
    ELSE \E i \in 1..Len(t.items) : t.items[i].kind = "base" /\ t.items[i].name = "null"

\* Type.NonNullType
NonNullType(t) ==
    IF ~IsOptional(t) THEN NilT
    ELSE LET nn == {i \in 1..Len(t.items) :
                        ~(t.items[i].kind = "base" /\ t.items[i].name = "null")}
         IN  IF nn = {} THEN NilT
             ELSE t.items[CHOOSE i \in nn : \A j \in nn : i <= j]

\* A JSON document is written with the constructors above: an object in the
\* place of a type is a Type record of the fields it carries (an absent field is
\* "", <<>> or NilT), JSON null is NilT, a JSON string is JsonString, the object
\* of a literal's value is a Literal record.
JsonString(s) == [kind |-> "string", str |-> s]

\* The outcome of an UnmarshalJSON call: the error, or the decoded value.
Unmarshalled(t) == [ok |-> TRUE, t |-> t]
UnmarshalError  == [ok |-> FALSE, t |-> NilT]

\* json.Unmarshal into the `Value any` of the raw struct: no Type decoding, a
\* string stays a string and an object becomes a map[string]any.
unmarshalAny(j) ==
    IF j = NilT \/ j.kind = "string" THEN j ELSE [kind |-> "object", json |-> j]

\* Mutant: every kind is taken as one of those that need no special handling.
KnownKind_Any(kind) == TRUE

\* Type.UnmarshalJSON, the cases of `switch raw.Kind` that are not the default.
KnownKind(kind) ==
    kind \in {"map", "literal", "base", "reference", "array", "and", "or", "tuple",
              "stringLiteral"}

\* Type.UnmarshalJSON, `*t = Type{Kind: raw.Kind, Items: raw.Items, ...}`: every
\* field of the raw struct but Key is copied.
rawFields(kind, name, items, element, value) ==
    Type(kind, name, items, element, NilT, value)

\* Type.UnmarshalJSON on the JSON value j in the place of a *Type; JSON null
\* leaves the pointer nil without a call.
RECURSIVE UnmarshalJSON(_), UnmarshalKind(_, _, _), UnmarshalLiteral(_)
UnmarshalJSON(j) ==
    IF j = NilT THEN Unmarshalled(NilT)
    ELSE IF j.kind \in {"string", "Literal"}
    THEN \* a string does not decode into the raw struct; an object without kind has kind ""
         UnmarshalError
    ELSE LET items   == [i \in 1..Len(j.items) |-> UnmarshalJSON(j.items[i])]
             element == UnmarshalJSON(j.element)
             key     == UnmarshalJSON(j.key)
         IN  IF ~element.ok \/ ~key.ok \/ \E i \in 1..Len(items) : ~items[i].ok
             THEN UnmarshalError
             ELSE UnmarshalKind(j, rawFields(j.kind, j.name,
                                             [i \in 1..Len(items) |-> items[i].t],
                                             element.t, unmarshalAny(j.value)),
                                key.t)

\* Type.UnmarshalJSON, `switch raw.Kind`: t holds the copied fields.
UnmarshalKind(j, t, key) ==
    IF ~KnownKind(j.kind) THEN UnmarshalError
    ELSE CASE j.kind = "map" ->
                LET value == UnmarshalJSON(j.value)
                IN  IF ~value.ok THEN UnmarshalError
                    ELSE Unmarshalled([t EXCEPT !.key = key, !.value = value.t])
           [] j.kind = "literal" ->
                LET lit == UnmarshalLiteral(j.value)
                IN  IF ~lit.ok THEN UnmarshalError
                    ELSE Unmarshalled([t EXCEPT !.value = lit.t])
           [] OTHER -> Unmarshalled(t)

\* json.Unmarshal into `Value Literal`: the properties of the object, each type
\* decoded by Type.UnmarshalJSON; an absent value or an object without
\* properties is the zero Literal, a string is an error.
UnmarshalLiteral(j) ==
    IF j = NilT THEN Unmarshalled(Literal(<<>>))
    ELSE IF j.kind = "string" THEN UnmarshalError
    ELSE IF j.kind # "Literal" THEN Unmarshalled(Literal(<<>>))
    ELSE LET decoded == [i \in 1..Len(j.properties) |-> UnmarshalJSON(j.properties[i].type)]
         IN  IF \E i \in 1..Len(decoded) : ~decoded[i].ok THEN UnmarshalError
             ELSE Unmarshalled(Literal([i \in 1..Len(decoded) |->
                                   [j.properties[i] EXCEPT !.type = decoded[i].t]]))

\* A nil *Model.
NilModel == [nil |-> TRUE]

\* fetch.parseModel on a document of type aliases: the model, or nil and the error.
parseModel(data) ==
    LET decoded == [i \in 1..Len(data.typeAliases) |-> UnmarshalJSON(data.typeAliases[i].type)]
    IN  IF \E i \in 1..Len(decoded) : ~decoded[i].ok
        THEN [m |-> NilModel, err |-> "unknown type kind"]
        ELSE [m |-> [structures |-> <<>>, enumerations |-> <<>>,
                     typeAliases |-> [i \in 1..Len(decoded) |->
                                         [data.typeAliases[i] EXCEPT !.type = decoded[i].t]]],
              err |-> ""]

-----------------------------------------------------------------------------
(* generator.ResolveDeps, one invocation of collectDeps / collectTypeRefs   *)
(* per step; `stack` is the call stack of invocations still to run.         *)

CallDeps(name) == [call |-> "collectDeps", name |-> name, t |-> NilT]
CallRefs(t)    == [call |-> "collectTypeRefs", name |-> "", t |-> t]

\* Mutant: the visited check never fires, so a name is explored again and again.
AlreadyVisited_Never(typeName, visited) == FALSE

\* `if visited[typeName] { return }`
AlreadyVisited(typeName, visited) == typeName \in visited

\* Mutant: proposed properties are followed whatever the flag says.
SkipProperty_Never(prop, includeProposed) == FALSE

\* `if prop.Proposed && !includeProposed { continue }`
SkipProperty(prop, includeProposed) == prop.proposed /\ ~includeProposed

\* The calls collectDeps makes for the first structure / alias named typeName.
DepCalls(m, typeName, includeProposed) ==
    LET ss == {i \in 1..Len(m.structures) : m.structures[i].name = typeName}
        as == {i \in 1..Len(m.typeAliases) : m.typeAliases[i].name = typeName}
    IN  IF ss # {}
        THEN LET s == m.structures[CHOOSE i \in ss : \A j \in ss : i <= j]
                 kept == SelectSeq(s.properties, LAMBDA p : ~SkipProperty(p, includeProposed))
             IN  [i \in 1..Len(kept) |-> CallRefs(kept[i].type)]
                 \o [i \in 1..Len(s.extends) |-> CallRefs(s.extends[i])]
                 \o [i \in 1..Len(s.mixins) |-> CallRefs(s.mixins[i])]
        ELSE IF as # {}
        THEN <<CallRefs(m.typeAliases[CHOOSE i \in as : \A j \in as : i <= j].type)>>
        ELSE <<>>

\* Mutant: a name the model does not declare is not recorded.
collectDeps_DeclaredOnly(m, typeName, visited, includeProposed) ==
    IF AlreadyVisited(typeName, visited)
    THEN [visited |-> visited, calls |-> <<>>]
    ELSE [visited |-> IF \E d \in Range(m.structures) \cup Range(m.typeAliases)
                                     \cup Range(m.enumerations) : d.name = typeName
                      THEN visited \cup {typeName} ELSE visited,
          calls |-> DepCalls(m, typeName, includeProposed)]

\* collectDeps: the new visited set and the calls it makes, in order.
collectDeps(m, typeName, visited, includeProposed) ==
    IF AlreadyVisited(typeName, visited)
    THEN [visited |-> visited, calls |-> <<>>]
    ELSE [visited |-> visited \cup {typeName},
          calls |-> DepCalls(m, typeName, includeProposed)]

\* Mutant: only a direct reference is followed; nested type nodes are ignored.
collectTypeRefs_DirectOnly(t) ==
    IF t = NilT THEN <<>>
    ELSE IF t.kind = "reference" THEN <<CallDeps(t.name)>> ELSE <<>>

\* Mutant: a base type's name is followed as if it were a reference.
collectTypeRefs_BaseAsRef(t) ==
    IF t = NilT THEN <<>>
    ELSE CASE t.kind \in {"reference", "base"} -> <<CallDeps(t.name)>>
           [] t.kind = "array"     -> <<CallRefs(t.element)>>
           [] t.kind = "map"       ->
                <<CallRefs(t.key)>>
                \o (IF IsTypeValue(t.value) THEN <<CallRefs(t.value)>> ELSE <<>>)
           [] t.kind \in {"or", "and", "tuple"} ->
                [i \in 1..Len(t.items) |-> CallRefs(t.items[i])]
           [] t.kind = "literal"   ->
                IF IsLiteralValue(t.value)
                THEN [i \in 1..Len(t.value.properties) |->
                          CallRefs(t.value.properties[i].type)]
                ELSE <<>>
           [] OTHER -> <<>>

\* collectTypeRefs: the calls it makes for t, in order.
collectTypeRefs(t) ==
    IF t = NilT THEN <<>>
    ELSE CASE t.kind = "reference" -> <<CallDeps(t.name)>>
           [] t.kind = "array"     -> <<CallRefs(t.element)>>
           [] t.kind = "map"       ->
                <<CallRefs(t.key)>>
                \o (IF IsTypeValue(t.value) THEN <<CallRefs(t.value)>> ELSE <<>>)
           [] t.kind \in {"or", "and", "tuple"} ->
                [i \in 1..Len(t.items) |-> CallRefs(t.items[i])]
           [] t.kind = "literal"   ->
                IF IsLiteralValue(t.value)
                THEN [i \in 1..Len(t.value.properties) |->
                          CallRefs(t.value.properties[i].type)]
                ELSE <<>>
           [] OTHER -> <<>>

-----------------------------------------------------------------------------
(* Generator state shared by the targets *)

\* lspbase.ProposedTypes over the items of buildProposedCache: name -> proposed,
\* a later declaration of a name overriding an earlier one.
ProposedTypes(items) ==
    [n \in {items[i].name : i \in 1..Len(items)} |->
        items[CHOOSE i \in 1..Len(items) :
                 /\ items[i].name = n
                 /\ \A j \in 1..Len(items) : items[j].name = n => j <= i].proposed]

\* buildProposedCache: structures, then enumerations, then type aliases.
buildProposedCache(m) ==
    ProposedTypes([i \in 1..Len(m.structures) |->
                       [name |-> m.structures[i].name, proposed |-> m.structures[i].proposed]]
                  \o [i \in 1..Len(m.enumerations) |->
                       [name |-> m.enumerations[i].name, proposed |-> m.enumerations[i].proposed]]
                  \o [i \in 1..Len(m.typeAliases) |->
                       [name |-> m.typeAliases[i].name, proposed |-> m.typeAliases[i].proposed]])

\* The fields of a Generator / Codegen the lowering reads.
Generator(m, cfg) == [config |-> cfg, proposedTypes |-> buildProposedCache(m)]

\* g.isProposed: a missing key reads as false.
isProposed(g, name) == name \in DOMAIN g.proposedTypes /\ g.proposedTypes[name]

\* orderedMap: the map m and the insertion order.
newOrderedMap == [m |-> <<>>, order |-> <<>>]

\* Mutant: no key is ever found.
exists_Never(om, key) == FALSE

\* `_, exists := om.m[key]`
exists(om, key) == key \in DOMAIN om.m

\* orderedMap.set
set(om, key, value) ==
    [m |-> (key :> value) @@ om.m,
     order |-> IF exists(om, key) THEN om.order ELSE Append(om.order, key)]

\* orderedMap.get
get(om, key) == om.m[key]

\* Insertion of p behind every element that does not compare greater: one pass
\* of the insertion sort slices.SortFunc runs on short slices.
RECURSIVE InsertByIdentName(_, _)
InsertByIdentName(sorted, p) ==
    IF sorted = <<>> THEN <<p>>
    ELSE IF Compare(p.identName, Head(sorted).identName) < 0 THEN <<p>> \o sorted
    ELSE <<Head(sorted)>> \o InsertByIdentName(Tail(sorted), p)

\* slices.SortFunc(pairs, cmp.Compare(a.identName, b.identName))
RECURSIVE SortFunc(_)
SortFunc(pairs) ==
    IF pairs = <<>> THEN <<>>
    ELSE InsertByIdentName(SortFunc(SubSeq(pairs, 1, Len(pairs) - 1)), pairs[Len(pairs)])

\* slices.Sort on strings, as keys() and sort.Strings use it.
RECURSIVE SortStrings(_)
SortStrings(keys) ==
    IF keys = <<>> THEN <<>>
    ELSE LET rest == SortStrings(SubSeq(keys, 1, Len(keys) - 1))
             k    == keys[Len(keys)]
             before == SelectSeq(rest, LAMBDA x : Compare(x, k) <= 0)
             after  == SelectSeq(rest, LAMBDA x : Compare(x, k) > 0)
         IN  before \o <<k>> \o after

\* Mutant: the keys in insertion order.
keys_Unsorted(om) == om.order

\* orderedMap.keys
keys(om) == SortStrings(om.order)

\* slices.CompactFunc(pairs, a.identName == b.identName)
RECURSIVE CompactFunc(_)
CompactFunc(pairs) ==
    IF Len(pairs) <= 1 THEN pairs
    ELSE LET rest == CompactFunc(SubSeq(pairs, 1, Len(pairs) - 1))
             p    == pairs[Len(pairs)]
         IN  IF rest[Len(rest)].identName = p.identName THEN rest ELSE Append(rest, p)

\* The identNames of pairs, in order.
IdentNames(pairs) == [i \in 1..Len(pairs) |-> pairs[i].identName]
TypeNames(pairs)  == [i \in 1..Len(pairs) |-> pairs[i].type]

\* What a lowering function hands back: the type string and the composite table.
Lowered(str, ors) == [s |-> str, ors |-> ors]

-----------------------------------------------------------------------------
(* generators/golang: goType, goBaseType, typeNameForIdent, getOrType *)

\* Generator.goBaseType
goBaseType(t) ==
    IF t = NilT THEN "any"
    ELSE CASE t.name \in {"string", "URI", "DocumentUri"} -> "string"
           [] t.name = "integer"  -> "int32"
           [] t.name = "uinteger" -> "uint32"
           [] t.name = "decimal"  -> "float64"
           [] t.name = "boolean"  -> "bool"
           [] t.name \in {"null", "LSPAny"} -> "any"
           [] OTHER -> "any"

\* Generator.typeNameForIdent
RECURSIVE go_typeNameForIdent(_)
go_typeNameForIdent(t) ==
    IF t = NilT THEN "any"
    ELSE CASE t.kind = "base"      -> goBaseType(t)
           [] t.kind = "reference" -> ExportName(t.name)
           [] t.kind = "array"     -> "Arr" \o go_typeNameForIdent(t.element)
           [] t.kind = "map"       ->
                "Map" \o go_typeNameForIdent(t.key)
                      \o (IF IsTypeValue(t.value) THEN go_typeNameForIdent(t.value) ELSE "any")
           [] t.kind = "literal"       -> "Literal"
           [] t.kind = "stringLiteral" -> "string"
           [] t.kind = "or"            -> "Union"
           [] t.kind = "and"           -> "Intersection"
           [] t.kind = "tuple"         -> "Tuple"
           [] OTHER -> "any"

\* `item.Kind == "base" && item.Name == "null"`
IsNullItem(item) == item.kind = "base" /\ item.name = "null"

\* Mutant: null items stay in the union.
go_keepItem_Null(g, item) ==
    ~(~g.config.IncludeProposed /\ item.kind = "reference" /\ isProposed(g, item.name))

\* Mutant: references to proposed types stay in the union.
go_keepItem_Proposed(g, item) == ~IsNullItem(item)

\* getOrType, the filter loop: an item is kept unless it is null or, with
\* IncludeProposed off, a reference to a proposed type.
go_keepItem(g, item) ==
    /\ ~IsNullItem(item)
    /\ ~(~g.config.IncludeProposed /\ item.kind = "reference" /\ isProposed(g, item.name))

RECURSIVE goType(_, _, _)
RECURSIVE go_pairs(_, _, _)
RECURSIVE go_getOrType(_, _, _)

\* Generator.goType
goType(g, ors, t) ==
    IF t = NilT THEN Lowered("any", ors)
    ELSE IF IsOptional(t)
    THEN LET inner == goType(g, ors, NonNullType(t))
         IN  Lowered("*" \o inner.s, inner.ors)
    ELSE CASE t.kind = "base"      -> Lowered(goBaseType(t), ors)
           [] t.kind = "reference" -> Lowered(ExportName(t.name), ors)
           [] t.kind = "array"     ->
                LET e == goType(g, ors, t.element)
                IN  Lowered("[]" \o e.s, e.ors)
           [] t.kind = "map"       ->
                LET k == goType(g, ors, t.key)
                    v == IF IsTypeValue(t.value) THEN goType(g, k.ors, t.value)
                         ELSE Lowered("any", k.ors)
                IN  Lowered("map[" \o k.s \o "]" \o v.s, v.ors)
           [] t.kind = "literal"       -> Lowered("any", ors)
           [] t.kind = "stringLiteral" -> Lowered("string", ors)
           [] t.kind = "or"            -> go_getOrType(g, ors, t)
           [] t.kind = "and"           -> Lowered("any", ors)
           [] t.kind = "tuple"         -> Lowered("[]any", ors)
           [] OTHER -> Lowered("any", ors)

\* getOrType, `for _, item := range nonNullItems`: the namePair of every item,
\* each goType call seeing the registrations of the calls before it.
go_pairs(g, ors, items) ==
    IF items = <<>> THEN [pairs |-> <<>>, ors |-> ors]
    ELSE LET first == goType(g, ors, Head(items))
             rest  == go_pairs(g, first.ors, Tail(items))
         IN  [pairs |-> <<[identName |-> go_typeNameForIdent(Head(items)),
                           type |-> first.s]>> \o rest.pairs,
              ors |-> rest.ors]

\* Generator.getOrType
go_getOrType(g, ors, t) ==
    IF t.kind # "or" \/ Len(t.items) = 0 THEN Lowered("any", ors)
    ELSE LET nonNullItems == SelectSeq(t.items, LAMBDA item : go_keepItem(g, item))
         IN  IF Len(nonNullItems) = 1 THEN goType(g, ors, nonNullItems[1])
             ELSE IF Len(nonNullItems) = 0 THEN Lowered("any", ors)
             ELSE LET built    == go_pairs(g, ors, nonNullItems)
                      pairs    == SortFunc(built.pairs)
                      typeName == "Or_" \o Join(IdentNames(pairs), "_")
                  IN  IF exists(built.ors, typeName) THEN Lowered(typeName, built.ors)
                      ELSE Lowered(typeName,
                                   set(built.ors, typeName,
                                       [name |-> typeName, itemNames |-> TypeNames(pairs)]))

-----------------------------------------------------------------------------
(* generators/kotlin: kotlinType, kotlinTypeInner, kotlinBaseType, getOrType *)

\* kotlin.DefaultMappings
kotlin_DefaultMappings ==
    [k \in {"DocumentUri", "URI", "ChangeAnnotationIdentifier", "Pattern", "GlobPattern",
            "RegularExpressionEngineKind", "ProgressToken", "DocumentSelector"} |-> "String"]

\* kotlinBaseType
kotlinBaseType(t) ==
    CASE t.name \in {"string", "URI", "DocumentUri", "RegExp"} -> "String"
      [] t.name = "integer"   -> "Int"
      [] t.name = "uinteger"  -> "UInt"
      [] t.name = "decimal"   -> "Double"
      [] t.name = "boolean"   -> "Boolean"
      [] t.name = "null"      -> "Nothing?"
      [] t.name = "LSPAny"    -> "Any?"
      [] t.name = "LSPObject" -> "Map<String, Any?>"
      [] t.name = "LSPArray"  -> "List<Any?>"
      [] OTHER -> "Any"

\* Codegen.typeNameForIdent (Kotlin)
RECURSIVE kotlin_typeNameForIdent(_)
kotlin_typeNameForIdent(t) ==
    IF t = NilT THEN "Any"
    ELSE CASE t.kind = "base"      -> kotlinBaseType(t)
           [] t.kind = "reference" -> ExportName(t.name)
           [] t.kind = "array"     -> "Arr" \o kotlin_typeNameForIdent(t.element)
           [] t.kind = "map"       ->
                "Map" \o kotlin_typeNameForIdent(t.key)
                      \o (IF IsTypeValue(t.value) THEN kotlin_typeNameForIdent(t.value) ELSE "Any")
           [] t.kind = "literal"       -> "Literal"
           [] t.kind = "stringLiteral" -> "String"
           [] t.kind = "or"            -> "Union"
           [] t.kind = "and"           -> "Intersection"
           [] t.kind = "tuple"         -> "Tuple"
           [] OTHER -> "Any"

\* getOrType (Kotlin), the filter loop.
kotlin_keepItem(g, item) ==
    /\ ~IsNullItem(item)
    /\ ~(~g.config.IncludeProposed /\ item.kind = "reference" /\ isProposed(g, item.name))

RECURSIVE kotlinType(_, _, _, _)
RECURSIVE kotlinTypeInner(_, _, _)
RECURSIVE kotlin_pairs(_, _, _)
RECURSIVE kotlin_getOrType(_, _, _)

\* Codegen.kotlinType
kotlinType(g, ors, t, nullable) ==
    IF t = NilT THEN Lowered("Any", ors)
    ELSE IF IsOptional(t)
    THEN LET inner == kotlinType(g, ors, NonNullType(t), FALSE)
         IN  Lowered(inner.s \o "?", inner.ors)
    ELSE LET base == kotlinTypeInner(g, ors, t)
         IN  IF nullable THEN Lowered(base.s \o "?", base.ors) ELSE base

\* Codegen.kotlinTypeInner
kotlinTypeInner(g, ors, t) ==
    CASE t.kind = "base"      -> Lowered(kotlinBaseType(t), ors)
      [] t.kind = "reference" ->
           IF t.name \in DOMAIN kotlin_DefaultMappings
           THEN Lowered(kotlin_DefaultMappings[t.name], ors)
           ELSE Lowered(ExportName(t.name), ors)
      [] t.kind = "array"     ->
           LET e == kotlinType(g, ors, t.element, FALSE)
           IN  Lowered("List<" \o e.s \o ">", e.ors)
      [] t.kind = "map"       ->
           LET k == kotlinType(g, ors, t.key, FALSE)
               v == IF IsTypeValue(t.value) THEN kotlinType(g, k.ors, t.value, FALSE)
                    ELSE Lowered("Any", k.ors)
           IN  Lowered("Map<" \o k.s \o ", " \o v.s \o ">", v.ors)
      [] t.kind = "literal"       -> Lowered("Any", ors)
      [] t.kind = "stringLiteral" -> Lowered("String", ors)
      [] t.kind = "or"            -> kotlin_getOrType(g, ors, t)
      [] t.kind = "and"           -> Lowered("Any", ors)
      [] t.kind = "tuple"         -> Lowered("List<Any>", ors)
      [] OTHER -> Lowered("Any", ors)

\* getOrType (Kotlin), `for _, item := range nonNullItems`
kotlin_pairs(g, ors, items) ==
    IF items = <<>> THEN [pairs |-> <<>>, ors |-> ors]
    ELSE LET first == kotlinType(g, ors, Head(items), FALSE)
             rest  == kotlin_pairs(g, first.ors, Tail(items))
         IN  [pairs |-> <<[identName |-> kotlin_typeNameForIdent(Head(items)),
                           type |-> first.s]>> \o rest.pairs,
              ors |-> rest.ors]

\* Codegen.getOrType (Kotlin)
kotlin_getOrType(g, ors, t) ==
    IF t.kind # "or" \/ Len(t.items) = 0 THEN Lowered("Any", ors)
    ELSE LET nonNullItems == SelectSeq(t.items, LAMBDA item : kotlin_keepItem(g, item))
         IN  IF Len(nonNullItems) = 0 THEN Lowered("Any", ors)
             ELSE IF Len(nonNullItems) = 1 THEN kotlinType(g, ors, nonNullItems[1], FALSE)
             ELSE LET built      == kotlin_pairs(g, ors, nonNullItems)
                      pairs      == SortFunc(built.pairs)
                      sealedName == "Or_" \o Join(IdentNames(pairs), "_")
                  IN  IF exists(built.ors, sealedName) THEN Lowered(sealedName, built.ors)
                      ELSE Lowered(sealedName,
                                   set(built.ors, sealedName,
                                       [name |-> sealedName, variants |-> pairs]))

-----------------------------------------------------------------------------
(* generators/groovy: groovyType, groovyTypeInner, groovyBaseType, getOrType *)

\* groovy.DefaultMappings: the table of aliases that collapse to a Groovy type.
groovy_DefaultMappings == [k \in {"DocumentUri"} |-> "String"]

\* groovyBaseType
groovyBaseType(t) ==
    CASE t.name \in {"string", "URI", "DocumentUri", "RegExp"} -> "String"
      [] t.name = "integer"   -> "int"
      [] t.name = "uinteger"  -> "int"
      [] t.name = "decimal"   -> "double"
      [] t.name = "boolean"   -> "boolean"
      [] t.name = "null"      -> "Void"
      [] t.name = "LSPAny"    -> "Object"
      [] t.name = "LSPObject" -> "Map<String, Object>"
      [] t.name = "LSPArray"  -> "List<Object>"
      [] OTHER -> "Object"

\* groovyIdentBaseType
groovyIdentBaseType(t) ==
    CASE t.name \in {"string", "URI", "DocumentUri", "RegExp"} -> "String"
      [] t.name = "integer"   -> "Integer"
      [] t.name = "uinteger"  -> "Integer"
      [] t.name = "decimal"   -> "Double"
      [] t.name = "boolean"   -> "Boolean"
      [] t.name = "null"      -> "Void"
      [] t.name = "LSPAny"    -> "Object"
      [] t.name = "LSPObject" -> "MapStringObject"
      [] t.name = "LSPArray"  -> "ListObject"
      [] OTHER -> "Object"

\* Codegen.typeNameForIdent (Groovy)
RECURSIVE groovy_typeNameForIdent(_)
groovy_typeNameForIdent(t) ==
    IF t = NilT THEN "Object"
    ELSE CASE t.kind = "base"      -> groovyIdentBaseType(t)
           [] t.kind = "reference" -> ExportName(t.name)
           [] t.kind = "array"     -> "Arr" \o groovy_typeNameForIdent(t.element)
           [] t.kind = "map"       ->
                "Map" \o groovy_typeNameForIdent(t.key)
                      \o (IF IsTypeValue(t.value) THEN groovy_typeNameForIdent(t.value) ELSE "Object")
           [] t.kind = "literal"       -> "Literal"
           [] t.kind = "stringLiteral" -> "String"
           [] t.kind = "or"            -> "Union"
           [] t.kind = "and"           -> "Intersection"
           [] t.kind = "tuple"         -> "Tuple"
           [] OTHER -> "Object"

\* getOrType (Groovy), the filter loop.
groovy_keepItem(g, item) ==
    /\ ~IsNullItem(item)
    /\ ~(~g.config.IncludeProposed /\ item.kind = "reference" /\ isProposed(g, item.name))

RECURSIVE groovyType(_, _, _, _)
RECURSIVE groovyTypeInner(_, _, _)
RECURSIVE groovy_pairs(_, _, _)
RECURSIVE groovy_getOrType(_, _, _)

\* Codegen.groovyType: an optional type lowers to its inner type unchanged.
groovyType(g, ors, t, nullable) ==
    IF t = NilT THEN Lowered("Object", ors)
    ELSE IF IsOptional(t) THEN groovyType(g, ors, NonNullType(t), FALSE)
    ELSE groovyTypeInner(g, ors, t)

\* Codegen.groovyTypeInner
groovyTypeInner(g, ors, t) ==
    CASE t.kind = "base"      -> Lowered(groovyBaseType(t), ors)
      [] t.kind = "reference" ->
           IF t.name \in DOMAIN groovy_DefaultMappings
           THEN Lowered(groovy_DefaultMappings[t.name], ors)
           ELSE Lowered(ExportName(t.name), ors)
      [] t.kind = "array"     ->
           LET e == groovyType(g, ors, t.element, FALSE)
           IN  Lowered("List<" \o e.s \o ">", e.ors)
      [] t.kind = "map"       ->
           LET k == groovyType(g, ors, t.key, FALSE)
               v == IF IsTypeValue(t.value) THEN groovyType(g, k.ors, t.value, FALSE)
                    ELSE Lowered("Object", k.ors)
           IN  Lowered("Map<" \o k.s \o ", " \o v.s \o ">", v.ors)
      [] t.kind = "literal"       -> Lowered("Object", ors)
      [] t.kind = "stringLiteral" -> Lowered("String", ors)
      [] t.kind = "or"            -> groovy_getOrType(g, ors, t)
      [] t.kind = "and"           -> Lowered("Object", ors)
      [] t.kind = "tuple"         -> Lowered("List<Object>", ors)
      [] OTHER -> Lowered("Object", ors)

\* getOrType (Groovy), `for _, item := range nonNullItems`
groovy_pairs(g, ors, items) ==
    IF items = <<>> THEN [pairs |-> <<>>, ors |-> ors]
    ELSE LET first == groovyType(g, ors, Head(items), FALSE)
             rest  == groovy_pairs(g, first.ors, Tail(items))
         IN  [pairs |-> <<[identName |-> groovy_typeNameForIdent(Head(items)),
                           type |-> first.s]>> \o rest.pairs,
              ors |-> rest.ors]

\* Codegen.getOrType (Groovy): variants are sorted, then compacted by identName.
groovy_getOrType(g, ors, t) ==
    IF t.kind # "or" \/ Len(t.items) = 0 THEN Lowered("Object", ors)
    ELSE LET nonNullItems == SelectSeq(t.items, LAMBDA item : groovy_keepItem(g, item))
         IN  IF Len(nonNullItems) = 0 THEN Lowered("Object", ors)
             ELSE IF Len(nonNullItems) = 1 THEN groovyType(g, ors, nonNullItems[1], FALSE)
             ELSE LET built     == groovy_pairs(g, ors, nonNullItems)
                      pairs     == CompactFunc(SortFunc(built.pairs))
                      unionName == "Or_" \o Join(IdentNames(pairs), "_")
                  IN  IF Len(pairs) = 1 THEN Lowered(pairs[1].type, built.ors)
                      ELSE IF exists(built.ors, unionName) THEN Lowered(unionName, built.ors)
                      ELSE Lowered(unionName,
                                   set(built.ors, unionName,
                                       [name |-> unionName, variants |-> pairs]))

-----------------------------------------------------------------------------
(* generators/golang: Generate and the declarations it emits *)

\* Generator.shouldInclude (the same in every target)
shouldInclude(cfg, filter, name, proposed) ==
    IF proposed /\ ~cfg.IncludeProposed THEN FALSE
    ELSE IF ~filter.nil /\ name \notin filter.names THEN FALSE
    ELSE TRUE

\* What Generate has produced so far: g.types and g.orTypes.
Output(ts, ors) == [types |-> ts, orTypes |-> ors]

\* The names of the reference items of an extends or mixins list, exported.
EmbeddedNames(refs) ==
    LET kept == SelectSeq(refs, LAMBDA r : r.kind = "reference")
    IN  [i \in 1..Len(kept) |-> ExportName(kept[i].name)]

\* Generator.generateProperty: one more field of the structure being written,
\* and the unions its type registered.
generateProperty(g, body, p) ==
    LET r == goType(g, body.ors, p.type)
    IN  [fields |-> Append(body.fields,
                           [prop |-> p.name,
                            name |-> ExportName(p.name),
                            type |-> r.s,
                            tag  |-> p.name \o (IF p.optional THEN ",omitempty" ELSE "")]),
         ors |-> r.ors]

\* generateStructure, `for _, p := range s.Properties`
RECURSIVE go_properties(_, _, _)
go_properties(g, body, props) ==
    IF props = <<>> THEN body
    ELSE IF Head(props).proposed /\ ~g.config.IncludeProposed
    THEN go_properties(g, body, Tail(props))
    ELSE go_properties(g, generateProperty(g, body, Head(props)), Tail(props))

\* generateStructure, the declaration once its fields are written.
go_structDecl(out, s, body) ==
    Output(set(out.types, s.name,
               [sort |-> "struct",
                name |-> ExportName(s.name),
                embedded |-> EmbeddedNames(s.extends) \o EmbeddedNames(s.mixins),
                fields |-> body.fields]),
           body.ors)

\* Generator.generateStructure
generateStructure(g, out, s) ==
    go_structDecl(out, s, go_properties(g, [fields |-> <<>>, ors |-> out.orTypes], s.properties))

\* Generator.generateEnumeration (the enumerations of this model carry no values)
generateEnumeration(g, out, e) ==
    Output(set(out.types, e.name,
               [sort |-> "enum", name |-> ExportName(e.name), type |-> goBaseType(e.type)]),
           out.orTypes)

\* Generator.generateTypeAlias
generateTypeAlias(g, out, a) ==
    LET r == goType(g, out.orTypes, a.type)
    IN  Output(set(out.types, a.name,
                   [sort |-> "alias", name |-> ExportName(a.name), type |-> r.s]),
               r.ors)

\* Generate, the three loops over the model's declarations.
RECURSIVE go_structures(_, _, _, _)
go_structures(g, filter, out, ss) ==
    IF ss = <<>> THEN out
    ELSE IF shouldInclude(g.config, filter, Head(ss).name, Head(ss).proposed)
    THEN go_structures(g, filter, generateStructure(g, out, Head(ss)), Tail(ss))
    ELSE go_structures(g, filter, out, Tail(ss))

RECURSIVE go_enumerations(_, _, _, _)
go_enumerations(g, filter, out, es) ==
    IF es = <<>> THEN out
    ELSE IF shouldInclude(g.config, filter, Head(es).name, Head(es).proposed)
    THEN go_enumerations(g, filter, generateEnumeration(g, out, Head(es)), Tail(es))
    ELSE go_enumerations(g, filter, out, Tail(es))

RECURSIVE go_typeAliases(_, _, _, _)
go_typeAliases(g, filter, out, as) ==
    IF as = <<>> THEN out
    ELSE IF shouldInclude(g.config, filter, Head(as).name, Head(as).proposed)
    THEN go_typeAliases(g, filter, generateTypeAlias(g, out, Head(as)), Tail(as))
    ELSE go_typeAliases(g, filter, out, Tail(as))

\* One definition of the generated file: its name, whether the generator
\* synthesized it, and what it declares.
Definition(name, synthesized, text) ==
    [name |-> name, synthesized |-> synthesized, text |-> text]

\* generateProtocolFile, `for _, name := range g.types.keys()` and generateOrTypes,
\* `for _, name := range g.orTypes.keys()`: the entries of om in the order of keys().
go_definitions(om, synthesized) ==
    [i \in 1..Len(keys(om)) |->
        Definition(get(om, keys(om)[i]).name, synthesized, get(om, keys(om)[i]))]

\* Generator.generateProtocolFile: the types, then the Or_* union types.
generateProtocolFile(out) ==
    go_definitions(out.types, FALSE) \o go_definitions(out.orTypes, TRUE)

\* Generator.Generate after dependency resolution: structures, enumerations, aliases.
go_Generate(m, cfg, filter) ==
    LET g == Generator(m, cfg)
    IN  go_typeAliases(g, filter,
            go_enumerations(g, filter,
                go_structures(g, filter, Output(newOrderedMap, newOrderedMap), m.structures),
                m.enumerations),
            m.typeAliases)

-----------------------------------------------------------------------------
(* generators/proto: TypeResolver, convertType, Generate *)

\* proto.DefaultMappings
proto_DefaultMappings ==
    [k \in {"DocumentUri", "URI", "ChangeAnnotationIdentifier", "Pattern", "GlobPattern",
            "RegularExpressionEngineKind", "ProgressToken", "DocumentSelector",
            "LSPAny", "LSPObject", "LSPArray"} |->
        CASE k = "LSPAny"    -> "google.protobuf.Value"
          [] k = "LSPObject" -> "google.protobuf.Struct"
          [] k = "LSPArray"  -> "google.protobuf.ListValue"
          [] OTHER -> "string"]

toProtoMessageName(name) == Capitalize(TrimPrefix(name, "$"))
toProtoFieldName(name) == CamelToSnake(name)
toEnumPrefix(name) == CamelToScreamingSnake(name)

\* A (string, error) result together with g.pendingWrappers after the call.
Converted(str, pw) == [ok |-> TRUE, s |-> str, pw |-> pw]
Failed(pw) == [ok |-> FALSE, s |-> "", pw |-> pw]

\* convertBaseType
convertBaseType(name) ==
    CASE name \in {"string", "DocumentUri", "URI"} -> [ok |-> TRUE, s |-> "string"]
      [] name = "integer"  -> [ok |-> TRUE, s |-> "int32"]
      [] name = "uinteger" -> [ok |-> TRUE, s |-> "uint32"]
      [] name = "decimal"  -> [ok |-> TRUE, s |-> "double"]
      [] name = "boolean"  -> [ok |-> TRUE, s |-> "bool"]
      [] OTHER -> [ok |-> FALSE, s |-> ""]

\* TypeResolver.registerTypeAlias
registerTypeAlias(typeMap, a) ==
    IF a.name \in DOMAIN typeMap \/ a.type = NilT THEN typeMap
    ELSE CASE a.type.kind = "base" ->
                IF convertBaseType(a.type.name).ok
                THEN (a.name :> convertBaseType(a.type.name).s) @@ typeMap
                ELSE typeMap
           [] a.type.kind = "reference" ->
                (a.name :> toProtoMessageName(a.type.name)) @@ typeMap
           [] a.type.kind = "array" ->
                IF a.type.element # NilT /\ a.type.element.kind = "reference"
                THEN (a.name :> ("repeated " \o toProtoMessageName(a.type.element.name))) @@ typeMap
                ELSE typeMap
           [] OTHER -> typeMap

RECURSIVE registerTypeAliases(_, _, _)
registerTypeAliases(typeMap, includeProposed, as) ==
    IF as = <<>> THEN typeMap
    ELSE IF ~includeProposed /\ Head(as).proposed
    THEN registerTypeAliases(typeMap, includeProposed, Tail(as))
    ELSE registerTypeAliases(registerTypeAlias(typeMap, Head(as)), includeProposed, Tail(as))

\* NewTypeResolver / TypeResolver.init, with no TypeOverrides configured.
NewTypeResolver(m, includeProposed) ==
    [typeMap |-> registerTypeAliases(proto_DefaultMappings, includeProposed, m.typeAliases),
     definedTypes |->
        {"google.protobuf.Any", "google.protobuf.Value", "google.protobuf.Struct",
         "google.protobuf.ListValue"}
        \cup {d.name : d \in {x \in Range(m.structures) \cup Range(m.enumerations)
                                      \cup Range(m.typeAliases) :
                                  ~(~includeProposed /\ x.proposed)}}]

\* TypeResolver.IsMapped, Resolve, IsKnown
IsMapped(r, lspType) == lspType \in DOMAIN r.typeMap
Resolve(r, lspType) ==
    IF lspType \in DOMAIN r.typeMap THEN r.typeMap[lspType] ELSE toProtoMessageName(lspType)
IsKnown(r, typeName) ==
    \/ typeName \in {"string", "int32", "int64", "uint32", "uint64", "bool", "float",
                     "double", "bytes"}
    \/ HasPrefix(typeName, "google.protobuf.")
    \/ typeName \in r.definedTypes

\* `if _, exists := g.pendingWrappers[w]; !exists { g.pendingWrappers[w] = ... }`
registerWrapper(pw, wrapper, body) == IF wrapper \in DOMAIN pw THEN pw ELSE (wrapper :> body) @@ pw

RECURSIVE convertType(_, _, _)
RECURSIVE proto_firstConvertible(_, _, _)

\* Codegen.convertType
convertType(r, pw, t) ==
    IF t = NilT THEN Failed(pw)
    ELSE CASE t.kind = "base" ->
                LET b == convertBaseType(t.name)
                IN  IF b.ok THEN Converted(b.s, pw) ELSE Failed(pw)
           [] t.kind = "reference" ->
                LET protoType == Resolve(r, t.name)
                IN  IF ~IsKnown(r, protoType) /\ ~IsKnown(r, t.name) THEN Failed(pw)
                    ELSE Converted(protoType, pw)
           [] t.kind = "array" ->
                LET e == convertType(r, pw, t.element)
                IN  IF ~e.ok THEN Failed(e.pw) ELSE Converted("repeated " \o e.s, e.pw)
           [] t.kind = "map" ->
                LET key == CASE t.key.kind = "base" -> convertBaseType(t.key.name)
                             [] t.key.kind = "reference" -> [ok |-> TRUE, s |-> "string"]
                             [] OTHER -> [ok |-> FALSE, s |-> ""]
                IN  IF ~key.ok \/ ~IsTypeValue(t.value) THEN Failed(pw)
                    ELSE IF t.value.kind = "array"
                    THEN LET e == convertType(r, pw, t.value.element)
                             wrapperName ==
                                 "MapArray_" \o toProtoMessageName(ReplaceAll(e.s, ".", "_"))
                         IN  IF ~e.ok THEN Failed(e.pw)
                             ELSE Converted("map<" \o key.s \o ", " \o wrapperName \o ">",
                                            registerWrapper(e.pw, wrapperName,
                                                [name |-> wrapperName,
                                                 field |-> "repeated " \o e.s \o " items"]))
                    ELSE LET v == convertType(r, pw, t.value)
                         IN  IF ~v.ok THEN Failed(v.pw)
                             ELSE Converted("map<" \o key.s \o ", " \o v.s \o ">", v.pw)
           [] t.kind = "or"  -> proto_firstConvertible(r, pw, t.items)
           [] t.kind = "and" ->
                IF Len(t.items) > 0 THEN convertType(r, pw, t.items[1]) ELSE Failed(pw)
           [] t.kind = "stringLiteral"  -> Converted("string", pw)
           [] t.kind = "integerLiteral" -> Converted("int32", pw)
           [] t.kind = "booleanLiteral" -> Converted("bool", pw)
           [] t.kind = "tuple" -> Converted("google.protobuf.ListValue", pw)
           [] OTHER -> Failed(pw)

\* convertType, case "or": the first item that is not null and converts.
proto_firstConvertible(r, pw, items) ==
    IF items = <<>> THEN Failed(pw)
    ELSE IF Head(items) = NilT \/ IsNullItem(Head(items))
    THEN proto_firstConvertible(r, pw, Tail(items))
    ELSE LET res == convertType(r, pw, Head(items))
         IN  IF res.ok THEN res ELSE proto_firstConvertible(r, res.pw, Tail(items))

\* What Generate has written so far: the buffer's messages and oneof messages, and
\* g.pendingWrappers.
Written(messages, unions, pw) == [messages |-> messages, unions |-> unions, pw |-> pw]

\* The lines written inside one message, g.pendingWrappers and the local fieldNum.
Body(lines, pw, fieldNum) == [lines |-> lines, pw |-> pw, fieldNum |-> fieldNum]

\* generateMessage, one property: its field line, or the skip comment when its
\* type does not convert (c is what convertType returned for it).
proto_fieldLine(body, prop, c) ==
    IF ~c.ok
    THEN Body(Append(body.lines,
                     [skipped |-> TRUE, prop |-> prop.name, name |-> "",
                      type |-> "", optional |-> FALSE, number |-> 0]),
              c.pw, body.fieldNum)
    ELSE Body(Append(body.lines,
                     [skipped |-> FALSE, prop |-> prop.name,
                      name |-> toProtoFieldName(prop.name),
                      type |-> c.s,
                      optional |-> prop.optional /\ ~HasPrefix(c.s, "repeated ")
                                                 /\ ~HasPrefix(c.s, "map<"),
                      number |-> body.fieldNum]),
              c.pw, body.fieldNum + 1)

\* generateMessage, `for _, prop := range s.Properties`: no property is left out
\* for being proposed.
RECURSIVE proto_fields(_, _, _, _)
proto_fields(cfg, r, body, props) ==
    IF props = <<>> THEN body
    ELSE proto_fields(cfg, r,
             proto_fieldLine(body, Head(props), convertType(r, body.pw, Head(props).type)),
             Tail(props))

\* generateMessage, the declaration once its fields are written.
proto_messageDecl(out, s, body) ==
    Written(Append(out.messages,
                   [decl |-> s.name, name |-> toProtoMessageName(s.name),
                    lines |-> body.lines]),
            out.unions, body.pw)

\* Codegen.generateMessage
generateMessage(cfg, r, out, s) ==
    proto_messageDecl(out, s, proto_fields(cfg, r, Body(<<>>, out.pw, 1), s.properties))

\* The Go value an EnumValue.Value holds: a float64 (counted in halves, so that
\* a number with a fraction can be told from a whole one), an int, a string,
\* or anything else.
Float64(halves) == [type |-> "float64", n |-> halves, s |-> ""]
GoInt(n)        == [type |-> "int", n |-> n, s |-> ""]
GoString(str)   == [type |-> "string", n |-> 0, s |-> str]
GoOther         == [type |-> "other", n |-> 0, s |-> ""]
EnumValue(name, value) == [name |-> name, value |-> value]

\* int(val) of a float64: the fraction is dropped, towards zero.
TruncateHalves(h) == IF h >= 0 THEN h \div 2 ELSE -((-h) \div 2)

\* generateEnum, the first loop: whether a defined value converts to 0.
hasZeroValue(values) ==
    \E i \in 1..Len(values) :
        \/ values[i].value.type = "float64" /\ TruncateHalves(values[i].value.n) = 0
        \/ values[i].value.type = "int" /\ values[i].value.n = 0

toEnumValueName(prefix, name) == prefix \o "_" \o toEnumPrefix(name)

\* generateEnum, the second loop: the values in the order of the schema, the
\* strings numbered from nextSeqValue, the values of any other type skipped.
RECURSIVE proto_enumValues(_, _, _, _)
proto_enumValues(prefix, values, nextSeqValue, lines) ==
    IF values = <<>> THEN lines
    ELSE LET v == Head(values)
             line(n) == [name |-> toEnumValueName(prefix, v.name), number |-> n]
         IN  CASE v.value.type = "float64" ->
                    proto_enumValues(prefix, Tail(values), nextSeqValue,
                                     Append(lines, line(TruncateHalves(v.value.n))))
               [] v.value.type = "int" ->
                    proto_enumValues(prefix, Tail(values), nextSeqValue,
                                     Append(lines, line(v.value.n)))
               [] v.value.type = "string" ->
                    proto_enumValues(prefix, Tail(values), nextSeqValue + 1,
                                     Append(lines, line(nextSeqValue)))
               [] OTHER -> proto_enumValues(prefix, Tail(values), nextSeqValue, lines)

\* The values of an enumeration; the enumerations of the resolver's models carry none.
ValuesOf(e) == IF "values" \in DOMAIN e THEN e.values ELSE <<>>

\* Codegen.generateEnum
generateEnum(e) ==
    [decl |-> e.name, name |-> toProtoMessageName(e.name),
     values |-> proto_enumValues(toEnumPrefix(e.name), ValuesOf(e), 1,
                    IF hasZeroValue(ValuesOf(e)) THEN <<>>
                    ELSE <<[name |-> toEnumPrefix(e.name) \o "_UNSPECIFIED", number |-> 0]>>)]

\* One oneof line written, or the error that skips it and leaves fieldNum alone.
UnionLine(body, type, name, pw) ==
    Body(Append(body.lines, [type |-> type, name |-> name, number |-> body.fieldNum]),
         pw, body.fieldNum + 1)
UnionSkipped(body, pw) == Body(body.lines, pw, body.fieldNum)

\* Codegen.generateUnionArrayField
generateUnionArrayField(r, body, item) ==
    LET elem    == convertType(r, body.pw, item.element)
        clean   == ReplaceAll(elem.s, ".", "_")
        wrapper == "ArrayOf_" \o toProtoMessageName(clean)
    IN  IF ~elem.ok THEN UnionSkipped(body, elem.pw)
        ELSE UnionLine(body, wrapper, toProtoFieldName(clean) \o "_list",
                       registerWrapper(elem.pw, wrapper,
                           [name |-> wrapper, field |-> "repeated " \o elem.s \o " items"]))

\* Codegen.generateUnionMapField (every map of the model carries a Type value)
generateUnionMapField(r, body, item) ==
    LET key      == IF convertBaseType(item.key.name).ok
                    THEN convertBaseType(item.key.name).s ELSE "string"
        val      == convertType(r, body.pw, item.value)
        cleanKey == ReplaceAll(key, ".", "_")
        cleanVal == ReplaceAll(val.s, ".", "_")
        wrapper  == "MapOf_" \o toProtoMessageName(cleanKey) \o "_" \o toProtoMessageName(cleanVal)
    IN  IF ~val.ok THEN UnionSkipped(body, val.pw)
        ELSE UnionLine(body, wrapper, toProtoFieldName(cleanVal) \o "_map",
                       registerWrapper(val.pw, wrapper,
                           [name |-> wrapper,
                            field |-> "map<" \o key \o ", " \o val.s \o "> pairs"]))

\* Codegen.generateUnionStandardField
generateUnionStandardField(r, body, item) ==
    LET c == convertType(r, body.pw, item)
        fieldName == CASE item.kind = "base" -> item.name \o "_value"
                       [] item.kind = "reference" -> toProtoFieldName(item.name)
                       [] OTHER -> "value"
    IN  IF ~c.ok THEN UnionSkipped(body, c.pw) ELSE UnionLine(body, c.s, fieldName, c.pw)

\* generateUnion, `for _, item := range alias.Type.Items`
RECURSIVE proto_unionLines(_, _, _)
proto_unionLines(r, body, items) ==
    IF items = <<>> THEN body
    ELSE IF Head(items) = NilT \/ IsNullItem(Head(items))
    THEN proto_unionLines(r, body, Tail(items))
    ELSE proto_unionLines(r,
             CASE Head(items).kind = "array" -> generateUnionArrayField(r, body, Head(items))
               [] Head(items).kind = "map"   -> generateUnionMapField(r, body, Head(items))
               [] OTHER -> generateUnionStandardField(r, body, Head(items)),
             Tail(items))

\* generateUnion, the declaration once its oneof lines are written.
proto_unionDecl(out, alias, body) ==
    Written(out.messages,
            Append(out.unions,
                   [decl |-> alias.name, name |-> toProtoMessageName(alias.name),
                    oneof |-> body.lines]),
            body.pw)

\* Codegen.generateUnion
generateUnion(r, out, alias) ==
    proto_unionDecl(out, alias, proto_unionLines(r, Body(<<>>, out.pw, 1), alias.type.items))

\* Generate, the union loop: `alias.Type != nil && alias.Type.Kind == "or"`, unless mapped.
proto_isUnionAlias(r, alias) ==
    alias.type # NilT /\ alias.type.kind = "or" /\ ~IsMapped(r, alias.name)

\* Generate, the messages loop.
RECURSIVE proto_messages(_, _, _, _, _)
proto_messages(cfg, filter, r, out, ss) ==
    IF ss = <<>> THEN out
    ELSE IF ~shouldInclude(cfg, filter, Head(ss).name, Head(ss).proposed)
    THEN proto_messages(cfg, filter, r, out, Tail(ss))
    ELSE proto_messages(cfg, filter, r, generateMessage(cfg, r, out, Head(ss)), Tail(ss))

\* Generate, the unions loop.
RECURSIVE proto_unions(_, _, _, _, _)
proto_unions(cfg, filter, r, out, as) ==
    IF as = <<>> THEN out
    ELSE IF ~shouldInclude(cfg, filter, Head(as).name, Head(as).proposed)
            \/ ~proto_isUnionAlias(r, Head(as))
    THEN proto_unions(cfg, filter, r, out, Tail(as))
    ELSE proto_unions(cfg, filter, r, generateUnion(r, out, Head(as)), Tail(as))

\* The orders in which `for k := range` may visit the keys of a Go map.
MapIterationOrders(S) == {q \in [1..Cardinality(S) -> S] : Range(q) = S}

\* Mutant: the wrappers are written in the order the map iteration yields them.
proto_wrappers_Unsorted(pw, ks) ==
    [i \in 1..Len(ks) |-> pw[ks[i]]]

\* Generate, the pending wrappers: the keys as the map iteration ks yields them,
\* sort.Strings(keys), then the wrappers in that order.
proto_wrappers(pw, ks) ==
    [i \in 1..Len(ks) |-> pw[SortStrings(ks)[i]]]

\* Generate, the alias comments and the enums.
proto_aliases(cfg, filter, r, as) ==
    LET kept == SelectSeq(as, LAMBDA a : shouldInclude(cfg, filter, a.name, a.proposed))
    IN  [i \in 1..Len(kept) |-> [decl |-> kept[i].name, type |-> Resolve(r, kept[i].name)]]
proto_enums(cfg, filter, es) ==
    LET kept == SelectSeq(es, LAMBDA e : shouldInclude(cfg, filter, e.name, e.proposed))
    IN  [i \in 1..Len(kept) |-> generateEnum(kept[i])]

\* Generate, the file once every loop has run.
proto_file(m, cfg, filter, r, out, ks) ==
    [file |-> [aliases  |-> proto_aliases(cfg, filter, r, m.typeAliases),
               enums    |-> proto_enums(cfg, filter, m.enumerations),
               messages |-> out.messages,
               unions   |-> out.unions,
               wrappers |-> proto_wrappers(out.pw, ks)],
     pendingWrappers |-> out.pw]

\* Generate, the messages loop and the unions loop.
proto_declarations(m, cfg, filter) ==
    LET r == NewTypeResolver(m, cfg.IncludeProposed)
    IN  proto_unions(cfg, filter, r,
            proto_messages(cfg, filter, r, Written(<<>>, <<>>, <<>>), m.structures),
            m.typeAliases)

\* Codegen.Generate after dependency resolution: alias comments, enums, messages,
\* oneof messages, then the pending wrappers; ks is the order in which the map
\* iteration yields the wrapper names.
proto_Generate(m, cfg, filter, ks) ==
    proto_file(m, cfg, filter, NewTypeResolver(m, cfg.IncludeProposed),
               proto_declarations(m, cfg, filter), ks)

\* The definitions of the proto file in the order Generate writes them.
proto_definitions(file) ==
    [i \in 1..Len(file.enums) |-> Definition(file.enums[i].name, FALSE, file.enums[i])]
    \o [i \in 1..Len(file.messages) |->
           Definition(file.messages[i].name, FALSE, file.messages[i])]
    \o [i \in 1..Len(file.unions) |-> Definition(file.unions[i].name, FALSE, file.unions[i])]
    \o [i \in 1..Len(file.wrappers) |->
           Definition(file.wrappers[i].name, TRUE, file.wrappers[i])]

-----------------------------------------------------------------------------
(* The schemas and configurations the model explores *)

NameA == "Alpha"
NameB == "beta"
NameC == "_Gamma"
Absent == "Zeta"

\* How many names a caller may request at once.
MaxRequested == 2

StringT == Base("string")
IntegerT == Base("integer")

\* Declarations for the name n; nx and ot are the two other names it may mention.
RichMenu(n, nx, ot) == {
    [sort |-> "structure", def |-> Structure(n,
        <<Property("start", Ref(nx), FALSE, FALSE), Property("end", Ref(nx), FALSE, FALSE)>>,
        <<>>, <<>>, FALSE)],
    [sort |-> "structure", def |-> Structure(n,
        <<Property("stable", Ref(ot), FALSE, FALSE),
          Property("experimental", Ref(nx), TRUE, TRUE)>>, <<>>, <<>>, FALSE)],
    [sort |-> "structure", def |-> Structure(n,
        <<Property("only", Ref(nx), FALSE, TRUE)>>, <<>>, <<>>, FALSE)],
    [sort |-> "structure", def |-> Structure(n,
        <<Property("items", Array(Ref(nx)), FALSE, FALSE),
          Property("opt", Or(<<Ref(ot), Null>>), TRUE, FALSE)>>, <<>>, <<>>, FALSE)],
    [sort |-> "structure", def |-> Structure(n,
        <<Property("byKey", Map(StringT, Array(Ref(nx))), FALSE, FALSE),
          Property("choice", Or(<<Ref(nx), Ref(ot), IntegerT>>), FALSE, FALSE)>>,
        <<>>, <<>>, FALSE)],
    [sort |-> "structure", def |-> Structure(n,
        <<Property("inline", Lit(<<Property("q", Ref(nx), FALSE, FALSE)>>), FALSE, FALSE),
          Property("pair", Tuple(<<Ref(ot), IntegerT>>), FALSE, FALSE)>>, <<>>, <<>>, FALSE)],
    [sort |-> "structure", def |-> Structure(n,
        <<Property("v", StringT, FALSE, FALSE)>>, <<Ref(nx)>>, <<Ref(ot)>>, FALSE)],
    [sort |-> "structure", def |-> Structure(n,
        <<Property("self", Ref(n), FALSE, FALSE),
          Property("gone", Ref(Absent), FALSE, FALSE)>>, <<>>, <<>>, FALSE)],
    [sort |-> "structure", def |-> Structure(n,
        <<Property("v", Ref(nx), FALSE, FALSE)>>, <<>>, <<>>, TRUE)],
    [sort |-> "alias", def |-> TypeAlias(n, Ref(nx), FALSE)],
    [sort |-> "alias", def |-> TypeAlias(n, Or(<<Null, Ref(nx)>>), FALSE)],
    [sort |-> "alias", def |-> TypeAlias(n, Or(<<Ref(nx), Ref(ot)>>), FALSE)],
    [sort |-> "alias", def |-> TypeAlias(n, StringT, FALSE)],
    [sort |-> "alias", def |-> TypeAlias(n, And(<<Ref(nx), Ref(ot)>>), FALSE)],
    [sort |-> "alias", def |-> TypeAlias(n, Map(Ref(nx), Ref(ot)), FALSE)],
    [sort |-> "alias", def |-> TypeAlias(n, Ref(nx), TRUE)],
    [sort |-> "enum", def |-> Enumeration(n, StringT, FALSE)]
}

PlainMenu(n, nx, ot) == {
    [sort |-> "structure", def |-> Structure(n,
        <<Property("line", IntegerT, FALSE, FALSE)>>, <<>>, <<>>, FALSE)],
    [sort |-> "structure", def |-> Structure(n,
        <<Property("back", Ref(nx), FALSE, FALSE)>>, <<>>, <<>>, FALSE)],
    [sort |-> "structure", def |-> Structure(n,
        <<Property("u", Or(<<StringT, Ref(ot), Ref(nx)>>), FALSE, FALSE)>>, <<>>, <<>>, TRUE)],
    [sort |-> "structure", def |-> Structure(n,
        <<Property("only", Ref(ot), FALSE, TRUE)>>, <<>>, <<>>, FALSE)],
    [sort |-> "structure", def |-> Structure(n,
        <<Property("pick", Or(<<IntegerT, Ref(ot), Ref(n)>>), FALSE, FALSE),
          Property("again", Or(<<Ref(n), Ref(ot), IntegerT>>), TRUE, FALSE),
          Property("table", Map(StringT, Array(Ref(n))), FALSE, FALSE),
          Property("index", Map(StringT, Array(IntegerT)), FALSE, FALSE)>>,
        <<>>, <<>>, FALSE)],
    [sort |-> "alias", def |-> TypeAlias(n, Ref(ot), FALSE)],
    [sort |-> "alias", def |-> TypeAlias(n, StringT, FALSE)],
    [sort |-> "alias", def |-> TypeAlias(n, Array(Ref(nx)), TRUE)],
    [sort |-> "enum", def |-> Enumeration(n, IntegerT, TRUE)]
}

LeafMenu(n, nx) == {
    [sort |-> "structure", def |-> Structure(n,
        <<Property("line", IntegerT, FALSE, FALSE)>>, <<>>, <<>>, FALSE)],
    [sort |-> "structure", def |-> Structure(n,
        <<Property("back", Ref(nx), FALSE, FALSE)>>, <<>>, <<>>, TRUE)],
    [sort |-> "enum", def |-> Enumeration(n, IntegerT, FALSE)]
}

\* The model declaring a, b and c, each list in document order.
MakeModel(a, b, c) ==
    LET decls == <<a, b, c>>
        pick(sort) == SelectSeq(decls, LAMBDA d : d.sort = sort)
        defs(sort) == [i \in 1..Len(pick(sort)) |-> pick(sort)[i].def]
    IN  [structures |-> defs("structure"),
         enumerations |-> defs("enum"),
         typeAliases |-> defs("alias")]

Models ==
    {MakeModel(a, b, c) : a \in RichMenu(NameA, NameB, NameC),
                          b \in PlainMenu(NameB, NameA, NameC),
                          c \in LeafMenu(NameC, NameA)}

\* generator.mu and generator.registry as the package initialises them, with no
\* goroutine inside a call.
NoCall == [pc |-> "idle", op |-> "", name |-> "", calls |-> 0, out |-> ""]
RegistryAtStart ==
    /\ mu = [writer |-> 0, readers |-> {}]
    /\ registry = <<>>
    /\ gor = <<>>

RequestNames == {NameA, NameB, NameC, Absent}

Requests == {S \in SUBSET RequestNames : Cardinality(S) <= MaxRequested}

\* Config as New receives it; an empty Types leaves typeFilter nil.
Configs ==
    {[Types |-> ts, ResolveDeps |-> rd, IncludeProposed |-> ip] :
        ts \in Requests, rd \in BOOLEAN, ip \in BOOLEAN}

NilFilter == [nil |-> TRUE, names |-> {}]
Filter(names) == [nil |-> FALSE, names |-> names]

\* New: typeFilter is built only when len(cfg.Types) > 0.
NewTypeFilter(cfg) == IF cfg.Types # {} THEN Filter(cfg.Types) ELSE NilFilter

Init ==
    /\ model \in Models
    /\ config \in Configs
    /\ (config.Types = {} => config.ResolveDeps)
    /\ typeFilter = NewTypeFilter(config)
    /\ pc = "start"
    /\ pending = {}
    /\ stack = <<>>
    /\ expanded = {}
    /\ target = "none"
    /\ types = newOrderedMap
    /\ orTypes = newOrderedMap
    /\ input = NilT
    /\ result = ""
    /\ err = ""
    /\ output = <<>>
    /\ RegistryAtStart

-----------------------------------------------------------------------------
(* Generate: dependency resolution *)

\* Generate, `if g.typeFilter != nil && g.config.ResolveDeps`: enter ResolveDeps.
BeginResolve ==
    /\ pc = "start"
    /\ ~typeFilter.nil /\ config.ResolveDeps
    /\ pc' = "resolve"
    /\ pending' = typeFilter.names
    /\ expanded' = {}
    /\ UNCHANGED <<model, config, typeFilter, stack, target, types, orTypes, input, result, err, output>>
    /\ UNCHANGED regvars

\* Generate with a nil filter or ResolveDeps off: the filter is used as given.
SkipResolve ==
    /\ pc = "start"
    /\ ~(~typeFilter.nil /\ config.ResolveDeps)
    /\ pc' = "generate"
    /\ UNCHANGED <<model, config, typeFilter, pending, stack, expanded, target,
                   types, orTypes, input, result, err, output>>
    /\ UNCHANGED regvars

\* ResolveDeps, `for name := range filter`: map iteration order is unspecified.
ResolveNext ==
    /\ pc = "resolve"
    /\ stack = <<>>
    /\ \E name \in pending :
          /\ pending' = pending \ {name}
          /\ stack' = <<CallDeps(name)>>
    /\ UNCHANGED <<model, config, typeFilter, pc, expanded, target, types, orTypes,
                   input, result, err, output>>
    /\ UNCHANGED regvars

\* Mutant: collectDeps records the name in the map the caller passed as filter,
\* not in a map of its own.
CollectStep_InPlace ==
    /\ pc = "resolve"
    /\ stack # <<>>
    /\ LET top == Head(stack)
       IN  IF top.call = "collectDeps"
           THEN LET r == collectDeps(model, top.name, expanded, config.IncludeProposed)
                IN  /\ expanded' = r.visited
                    /\ typeFilter' = Filter(typeFilter.names \cup r.visited)
                    /\ stack' = r.calls \o Tail(stack)
           ELSE /\ expanded' = expanded
                /\ typeFilter' = typeFilter
                /\ stack' = collectTypeRefs(top.t) \o Tail(stack)
    /\ UNCHANGED <<model, config, pc, pending, target, types, orTypes,
                   input, result, err, output>>
    /\ UNCHANGED regvars

\* One invocation of collectDeps or collectTypeRefs: the innermost pending call.
CollectStep ==
    /\ pc = "resolve"
    /\ stack # <<>>
    /\ LET top == Head(stack)
       IN  IF top.call = "collectDeps"
           THEN LET r == collectDeps(model, top.name, expanded, config.IncludeProposed)
                IN  /\ expanded' = r.visited
                    /\ stack' = r.calls \o Tail(stack)
           ELSE /\ expanded' = expanded
                /\ stack' = collectTypeRefs(top.t) \o Tail(stack)
    /\ UNCHANGED <<model, config, typeFilter, pc, pending, target, types, orTypes,
                   input, result, err, output>>
    /\ UNCHANGED regvars

\* ResolveDeps returns `expanded`; Generate stores it in g.typeFilter.
EndResolve ==
    /\ pc = "resolve"
    /\ stack = <<>>
    /\ pending = {}
    /\ typeFilter' = Filter(expanded)
    /\ pc' = "generate"
    /\ UNCHANGED <<model, config, pending, stack, expanded, target, types, orTypes,
                   input, result, err, output>>
    /\ UNCHANGED regvars

\* golang Generate, from the resolved filter to the emitted declarations.
GoGenerate ==
    /\ pc = "generate"
    /\ \E out \in {go_Generate(model, config, typeFilter)} :
          /\ types' = out.types
          /\ orTypes' = out.orTypes
          /\ output' = generateProtocolFile(out)
    /\ target' = "go"
    /\ pc' = "done"
    /\ UNCHANGED <<model, config, typeFilter, pending, stack, expanded, input, result, err>>
    /\ UNCHANGED regvars

\* proto Generate, from the resolved filter to the emitted file; pendingWrappers
\* is a Go map, so no insertion order is kept.
ProtoGenerate ==
    /\ pc = "generate"
    /\ \E ks \in MapIterationOrders(DOMAIN proto_declarations(model, config, typeFilter).pw) :
       \E out \in {proto_Generate(model, config, typeFilter, ks)} :
          /\ types' = out.file
          /\ orTypes' = [m |-> out.pendingWrappers, order |-> <<>>]
          /\ output' = proto_definitions(out.file)
    /\ target' = "proto"
    /\ pc' = "done"
    /\ UNCHANGED <<model, config, typeFilter, pending, stack, expanded, input, result, err>>
    /\ UNCHANGED regvars

Next ==
    \/ BeginResolve
    \/ SkipResolve
    \/ ResolveNext
    \/ CollectStep
    \/ EndResolve
    \/ GoGenerate
    \/ ProtoGenerate

Spec == Init /\ [][Next]_vars

-----------------------------------------------------------------------------
(* Lowering one type node: the pure functions goType, kotlinType, groovyType *)

MaxItems == 3

\* A schema with a stable structure and a structure marked proposed.
LowerModel ==
    [structures |-> <<Structure(NameA, <<Property("line", IntegerT, FALSE, FALSE)>>,
                                <<>>, <<>>, FALSE),
                      Structure(NameB, <<Property("text", StringT, FALSE, FALSE)>>,
                                <<>>, <<>>, TRUE)>>,
     enumerations |-> <<>>,
     typeAliases |-> <<>>]

\* The items a union is built from.
ItemMenu ==
    {Null, StringT, IntegerT, Base("uinteger"), Ref(NameA), Ref(NameB),
     Array(Ref(NameA)), Or(<<StringT, IntegerT>>), Or(<<Ref(NameA), Null>>)}

RECURSIVE ItemSeqs(_)
ItemSeqs(n) ==
    IF n = 0 THEN {<<>>}
    ELSE LET shorter == ItemSeqs(n - 1)
         IN  shorter \cup {Append(q, it) : q \in {x \in shorter : Len(x) = n - 1}, it \in ItemMenu}

\* Nodes a schema newer than the generators can carry: no node at all, a kind
\* or a base name the generators do not know, an array without its element, an
\* intersection without parts.
OddShapes ==
    {NilT, Type("mystery", "", <<>>, NilT, NilT, NilT), Base("mystery"),
     Array(NilT), And(<<>>), Tuple(<<StringT, IntegerT>>)}

\* Every union of at most MaxItems items, and the odd shapes.
TypeUniverse == {Or(items) : items \in ItemSeqs(MaxItems)} \cup OddShapes

InitLower ==
    /\ model = LowerModel
    /\ config \in {[Types |-> {}, ResolveDeps |-> FALSE, IncludeProposed |-> ip] : ip \in BOOLEAN}
    /\ typeFilter = NewTypeFilter(config)
    /\ pc = "lower"
    /\ pending = {}
    /\ stack = <<>>
    /\ expanded = {}
    /\ target = "none"
    /\ types = newOrderedMap
    /\ orTypes = newOrderedMap
    /\ input \in TypeUniverse
    /\ result = ""
    /\ err = ""
    /\ output = <<>>
    /\ RegistryAtStart

\* goType(input) on a fresh Generator.
GoLower ==
    /\ pc = "lower"
    /\ LET r == goType(Generator(model, config), orTypes, input)
       IN  result' = r.s /\ orTypes' = r.ors
    /\ target' = "go"
    /\ pc' = "lowered"
    /\ UNCHANGED <<model, config, typeFilter, pending, stack, expanded, types, input, err, output>>
    /\ UNCHANGED regvars

\* kotlinType(input, false) on a fresh Codegen.
KotlinLower ==
    /\ pc = "lower"
    /\ LET r == kotlinType(Generator(model, config), orTypes, input, FALSE)
       IN  result' = r.s /\ orTypes' = r.ors
    /\ target' = "kotlin"
    /\ pc' = "lowered"
    /\ UNCHANGED <<model, config, typeFilter, pending, stack, expanded, types, input, err, output>>
    /\ UNCHANGED regvars

\* groovyType(input, false) on a fresh Codegen.
GroovyLower ==
    /\ pc = "lower"
    /\ LET r == groovyType(Generator(model, config), orTypes, input, FALSE)
       IN  result' = r.s /\ orTypes' = r.ors
    /\ target' = "groovy"
    /\ pc' = "lowered"
    /\ UNCHANGED <<model, config, typeFilter, pending, stack, expanded, types, input, err, output>>
    /\ UNCHANGED regvars

\* convertType(input) on a fresh proto Codegen: the string, or the error.
ProtoLower ==
    /\ pc = "lower"
    /\ \E c \in {convertType(NewTypeResolver(model, config.IncludeProposed), <<>>, input)} :
          /\ result' = c.s
          /\ err' = IF c.ok THEN "" ELSE "cannot convert"
          /\ orTypes' = [m |-> c.pw, order |-> <<>>]
    /\ target' = "proto"
    /\ pc' = "lowered"
    /\ UNCHANGED <<model, config, typeFilter, pending, stack, expanded, types, input, output>>
    /\ UNCHANGED regvars

\* What the generator of target tg, holding the composite table ors, hands back
\* for t: the type string, the table afterwards and the error.
Lowering(tg, ors, t) ==
    CASE tg = "go" ->
           [l |-> goType(Generator(model, config), ors, t), err |-> ""]
      [] tg = "kotlin" ->
           [l |-> kotlinType(Generator(model, config), ors, t, FALSE), err |-> ""]
      [] tg = "groovy" ->
           [l |-> groovyType(Generator(model, config), ors, t, FALSE), err |-> ""]
      [] tg = "proto" ->
           LET c == convertType(NewTypeResolver(model, config.IncludeProposed), ors.m, t)
           IN  [l |-> Lowered(c.s, [m |-> c.pw, order |-> <<>>]),
                err |-> IF c.ok THEN "" ELSE "cannot convert"]

\* The same generator lowers input a second time, another occurrence of the
\* same TypeNode in the schema.
LowerAgain ==
    /\ pc = "lowered"
    /\ \E again \in {Lowering(target, orTypes, input)} :
          result' = again.l.s /\ orTypes' = again.l.ors /\ err' = again.err
    /\ pc' = "relowered"
    /\ UNCHANGED <<model, config, typeFilter, pending, stack, expanded, target, types, input, output>>
    /\ UNCHANGED regvars

\* Type nodes found further on in the same schema.
LaterTypes ==
    {Or(<<Or(<<Ref(NameA), Null>>), Base("uinteger")>>),
     Map(StringT, Array(Ref(NameA))), Map(IntegerT, Array(Ref(NameA)))}

\* The same generator goes on to lower another TypeNode of the schema.
LowerNext ==
    /\ pc \in {"lowered", "next"}
    /\ \E t \in LaterTypes :
       \E later \in {Lowering(target, orTypes, t)} :
          /\ input' = t
          /\ result' = later.l.s /\ orTypes' = later.l.ors /\ err' = later.err
    /\ pc' = "next"
    /\ UNCHANGED <<model, config, typeFilter, pending, stack, expanded, target, types, output>>
    /\ UNCHANGED regvars

NextLower ==
    \/ GoLower
    \/ KotlinLower
    \/ GroovyLower
    \/ ProtoLower
    \/ LowerAgain
    \/ LowerNext

SpecLower == InitLower /\ [][NextLower]_vars

-----------------------------------------------------------------------------
(* Parsing a document: fetch.parseModel and Type.UnmarshalJSON *)

\* Type objects without nested types: two the parser knows, one without kind,
\* one of a kind it does not know.
GoodLeaf == Base("string")
BadLeaf  == Type("mystery", "", <<>>, NilT, NilT, NilT)
JsonLeaves == {GoodLeaf, Ref(NameA), Type("", "", <<>>, NilT, NilT, NilT), BadLeaf}

\* The kinds a type object of a document may carry.
JsonKinds ==
    {"base", "reference", "array", "map", "literal", "stringLiteral", "or", "and",
     "tuple", "integerLiteral", "booleanLiteral", "mystery", ""}

\* What the "value" field of a type object may hold.
JsonValues ==
    {NilT, JsonString("x"), GoodLeaf, BadLeaf,
     Literal(<<Property("p", GoodLeaf, FALSE, FALSE)>>),
     Literal(<<Property("p", GoodLeaf, FALSE, FALSE), Property("q", BadLeaf, TRUE, FALSE)>>)}

\* Type objects one level deep, each field present or absent whatever the kind.
JsonTypes ==
    {Type(kind, name, items, element, key, value) :
        kind \in JsonKinds, name \in {"", "string"},
        items \in {<<>>, <<GoodLeaf, NilT>>, <<GoodLeaf, BadLeaf>>},
        element \in {NilT, GoodLeaf, BadLeaf},
        key \in {NilT, GoodLeaf, BadLeaf},
        value \in JsonValues}

\* Documents of two type aliases.
Documents ==
    {[typeAliases |-> <<TypeAlias(NameA, a, FALSE), TypeAlias(NameB, b, FALSE)>>] :
        a \in JsonLeaves, b \in JsonTypes \cup {Array(Array(BadLeaf)), Array(Array(GoodLeaf))}}

InitParse ==
    /\ model = NilModel
    /\ config = [Types |-> {}, ResolveDeps |-> FALSE, IncludeProposed |-> FALSE]
    /\ typeFilter = NilFilter
    /\ pc = "parse"
    /\ pending = {}
    /\ stack = <<>>
    /\ expanded = {}
    /\ target = "none"
    /\ types = newOrderedMap
    /\ orTypes = newOrderedMap
    /\ input \in Documents
    /\ result = ""
    /\ err = ""
    /\ output = <<>>
    /\ RegistryAtStart

\* parseModel(input): the model and a nil error, or a nil model and the error.
ParseModel ==
    /\ pc = "parse"
    /\ \E parsed \in {parseModel(input)} :
          model' = parsed.m /\ err' = parsed.err
    /\ pc' = "parsed"
    /\ UNCHANGED <<config, typeFilter, pending, stack, expanded, target, types, orTypes,
                   input, result, output>>
    /\ UNCHANGED regvars

NextParse == ParseModel

SpecParse == InitParse /\ [][NextParse]_vars

-----------------------------------------------------------------------------
(* ResolveDeps called on its own, as the generators and the tests call it *)

\* The filters a caller may pass: nil, the empty map, a map of requested names.
Filters == {NilFilter} \cup {Filter(S) : S \in Requests}

InitResolve ==
    /\ model \in Models
    /\ typeFilter \in Filters
    /\ config \in {[Types |-> typeFilter.names, ResolveDeps |-> TRUE, IncludeProposed |-> ip] :
                      ip \in BOOLEAN}
    /\ pc = "call"
    /\ pending = {}
    /\ stack = <<>>
    /\ expanded = {}
    /\ target = "none"
    /\ types = newOrderedMap
    /\ orTypes = newOrderedMap
    /\ input = NilT
    /\ result = ""
    /\ err = ""
    /\ output = <<>>
    /\ RegistryAtStart

\* Mutant: a nil filter is taken as an empty one.
IsNilFilter_Never(filter) == FALSE

\* ResolveDeps, `if filter == nil`.
IsNilFilter(filter) == filter.nil

\* ResolveDeps, `if filter == nil { return nil }`.
ResolveNil ==
    /\ pc = "call"
    /\ IsNilFilter(typeFilter)
    /\ result' = NilFilter
    /\ pc' = "returned"
    /\ UNCHANGED <<model, config, typeFilter, pending, stack, expanded, target, types,
                   orTypes, input, err, output>>
    /\ UNCHANGED regvars

\* ResolveDeps, `expanded := make(map[string]bool)` and the start of the loop
\* over the filter.
ResolveBegin ==
    /\ pc = "call"
    /\ ~IsNilFilter(typeFilter)
    /\ expanded' = {}
    /\ pending' = typeFilter.names
    /\ pc' = "resolve"
    /\ UNCHANGED <<model, config, typeFilter, stack, target, types, orTypes, input,
                   result, err, output>>
    /\ UNCHANGED regvars

\* ResolveDeps, `return expanded`.
ResolveReturn ==
    /\ pc = "resolve"
    /\ stack = <<>>
    /\ pending = {}
    /\ result' = Filter(expanded)
    /\ pc' = "returned"
    /\ UNCHANGED <<model, config, typeFilter, pending, stack, expanded, target, types,
                   orTypes, input, err, output>>
    /\ UNCHANGED regvars

NextResolve ==
    \/ ResolveNil
    \/ ResolveBegin
    \/ ResolveNext
    \/ CollectStep
    \/ ResolveReturn

SpecResolve == InitResolve /\ [][NextResolve]_vars

-----------------------------------------------------------------------------
(* generator: the registry and the goroutines that call it *)

\* How many goroutines call the registry, and how many calls they make in all.
MaxGoroutines == 3
MaxCalls == 3

Goroutines == 1..MaxGoroutines

\* The calls made so far, by all goroutines together.
RECURSIVE CallsMade(_)
CallsMade(n) == IF n = 0 THEN 0 ELSE gor[n].calls + CallsMade(n - 1)

\* Metadata().Name of the generators registered.
GeneratorNames == {"go", "proto"}

\* The Generator value goroutine g passes to the Register it is in or made
\* last: the goroutine and call that made it, and its name.
Passed(g) == [by |-> g, call |-> gor[g].calls, name |-> gor[g].name]

\* The zero Generator, as Get returns it with ok = false.
NoGenerator == [by |-> 0, call |-> 0, name |-> ""]

InitRegistry ==
    /\ model = NilModel
    /\ config = [Types |-> {}, ResolveDeps |-> FALSE, IncludeProposed |-> FALSE]
    /\ typeFilter = NilFilter
    /\ pc = "registry"
    /\ pending = {}
    /\ stack = <<>>
    /\ expanded = {}
    /\ target = "none"
    /\ types = newOrderedMap
    /\ orTypes = newOrderedMap
    /\ input = NilT
    /\ result = ""
    /\ err = ""
    /\ output = <<>>
    /\ mu = [writer |-> 0, readers |-> {}]
    /\ registry = <<>>
    /\ gor = [g \in Goroutines |-> NoCall]

\* The goroutine g moves to position p of its call.
At(g, p) == [gor EXCEPT ![g].pc = p]

\* g calls Register(gen), Get(name), List(), All() or Reset(): it stands before
\* the Lock / RLock of the call.
Call(g) ==
    /\ pc = "registry"
    /\ gor[g].pc = "idle"
    /\ CallsMade(MaxGoroutines) < MaxCalls
    /\ \E op \in {"Register", "Get", "List", "All", "Reset"} :
       \E name \in (IF op \in {"Register", "Get"} THEN GeneratorNames ELSE {""}) :
          gor' = [gor EXCEPT ![g] =
                     [pc |-> IF op \in {"Register", "Reset"} THEN "Lock" ELSE "RLock",
                      op |-> op, name |-> name, calls |-> @.calls + 1,
                      out |-> ""]]
    /\ UNCHANGED <<mu, registry>>
    /\ UNCHANGED genvars

\* Mutant: Lock does not wait for another writer.
WriterFree_Always(m) == TRUE

\* sync.RWMutex: no goroutine holds or awaits the write lock.
WriterFree(m) == m.writer = 0

\* mu.Lock(), first half: g takes the writer's place; from now on RLock waits.
Lock(g) ==
    /\ gor[g].pc = "Lock"
    /\ WriterFree(mu)
    /\ mu' = [mu EXCEPT !.writer = g]
    /\ gor' = At(g, "LockWait")
    /\ UNCHANGED registry
    /\ UNCHANGED genvars

\* mu.Lock(), second half: the readers inside have left; g holds the lock.
Locked(g) ==
    /\ gor[g].pc = "LockWait"
    /\ mu.readers = {}
    /\ gor' = At(g, IF gor[g].op = "Register" THEN "exists" ELSE "make")
    /\ UNCHANGED <<mu, registry>>
    /\ UNCHANGED genvars

\* Mutant: the name is never found registered.
RegisterExists_Never(g) ==
    /\ gor[g].pc = "exists"
    /\ gor' = At(g, "insert")
    /\ UNCHANGED <<mu, registry>>
    /\ UNCHANGED genvars

\* Register, `if _, exists := registry[meta.Name]; exists`.
RegisterExists(g) ==
    /\ gor[g].pc = "exists"
    /\ gor' = At(g, IF gor[g].name \in DOMAIN registry THEN "panic" ELSE "insert")
    /\ UNCHANGED <<mu, registry>>
    /\ UNCHANGED genvars

\* Register, `registry[meta.Name] = g`.
RegisterInsert(g) ==
    /\ gor[g].pc = "insert"
    /\ registry' = [n \in DOMAIN registry \cup {gor[g].name} |->
                       IF n = gor[g].name THEN Passed(g) ELSE registry[n]]
    /\ gor' = At(g, "Unlock")
    /\ UNCHANGED mu
    /\ UNCHANGED genvars

\* Reset, `registry = make(map[string]Generator)`.
ResetMake(g) ==
    /\ gor[g].pc = "make"
    /\ registry' = <<>>
    /\ gor' = At(g, "Unlock")
    /\ UNCHANGED mu
    /\ UNCHANGED genvars

\* The deferred mu.Unlock() of a Register or Reset that returns.
Unlock(g) ==
    /\ gor[g].pc = "Unlock"
    /\ mu' = [mu EXCEPT !.writer = 0]
    /\ gor' = [gor EXCEPT ![g].pc = "idle", ![g].out = "returned"]
    /\ UNCHANGED registry
    /\ UNCHANGED genvars

\* Mutant: the panic leaves Register with the lock held.
RegisterPanic_Held(g) ==
    /\ gor[g].pc = "panic"
    /\ gor' = [gor EXCEPT ![g].pc = "idle", ![g].out = "panic"]
    /\ UNCHANGED <<mu, registry>>
    /\ UNCHANGED genvars

\* Register, `panic(...)`: the deferred mu.Unlock() runs while the panic
\* unwinds, and the caller recovers it.
RegisterPanic(g) ==
    /\ gor[g].pc = "panic"
    /\ mu' = [mu EXCEPT !.writer = 0]
    /\ gor' = [gor EXCEPT ![g].pc = "idle", ![g].out = "panic"]
    /\ UNCHANGED registry
    /\ UNCHANGED genvars

\* mu.RLock(): waits while a writer holds or awaits the lock.
RLock(g) ==
    /\ gor[g].pc = "RLock"
    /\ WriterFree(mu)
    /\ mu' = [mu EXCEPT !.readers = @ \cup {g}]
    /\ gor' = At(g, "read")
    /\ UNCHANGED registry
    /\ UNCHANGED genvars

\* What Get(name), List() and All() return from the map r, its keys visited in
\* the order ks.
Read(op, name, r, ks) ==
    CASE op = "Get"  -> IF name \in DOMAIN r THEN r[name] ELSE NoGenerator
      [] op = "List" -> SortStrings(ks)
      [] op = "All"  -> [i \in 1..Len(ks) |-> r[ks[i]]]

\* Get, List, All: the read of the map and the deferred mu.RUnlock().
ReadUnlock(g) ==
    /\ gor[g].pc = "read"
    /\ \E ks \in MapIterationOrders(DOMAIN registry) :
          gor' = [gor EXCEPT ![g].pc = "idle",
                             ![g].out = Read(gor[g].op, gor[g].name, registry, ks)]
    /\ mu' = [mu EXCEPT !.readers = @ \ {g}]
    /\ UNCHANGED registry
    /\ UNCHANGED genvars

NextRegistry ==
    \E g \in Goroutines :
        \/ Call(g)
        \/ Lock(g)
        \/ Locked(g)
        \/ RegisterExists(g)
        \/ RegisterInsert(g)
        \/ RegisterPanic(g)
        \/ ResetMake(g)
        \/ Unlock(g)
        \/ RLock(g)
        \/ ReadUnlock(g)

SpecRegistry == InitRegistry /\ [][NextRegistry]_vars

\* A step of goroutine g inside a call it has made.
Step(g) ==
    \/ Lock(g)
    \/ Locked(g)
    \/ RegisterExists(g)
    \/ RegisterInsert(g)
    \/ RegisterPanic(g)
    \/ ResetMake(g)
    \/ Unlock(g)
    \/ RLock(g)
    \/ ReadUnlock(g)

\* The Go scheduler runs every goroutine that can run: a goroutine inside a
\* call that stays able to take its next step takes it.
SpecRegistryFair == SpecRegistry /\ \A g \in Goroutines : WF_vars(Step(g))

-----------------------------------------------------------------------------
(* generators/kotlin, generators/groovy: collectProperties *)

\* The depth of recursion the goroutine's stack has room for.
MaxDepth == 4

\* The structures a schema may declare under the name n: one own property, and
\* at most one extends and one mixins reference among the names.
Flattenable(n) ==
    {Structure(n, <<Property(n \o "Own", StringT, FALSE, proposed)>>, extends, mixins, FALSE) :
        proposed \in BOOLEAN,
        extends \in {<<>>} \cup {<<Ref(x)>> : x \in {NameA, NameB, NameC}},
        mixins \in {<<>>, <<Ref(NameC)>>, <<StringT>>}}

FlattenModels ==
    {[structures |-> <<a, b, c>>, enumerations |-> <<>>, typeAliases |-> <<>>] :
        a \in Flattenable(NameA), b \in {x \in Flattenable(NameB) : ~x.properties[1].proposed},
        c \in {x \in Flattenable(NameC) : x.mixins = <<>> /\ ~x.properties[1].proposed}}

\* collectProperties, the two loops over s.Extends and s.Mixins: the structures
\* of the model it calls itself on, in order.
Parents(m, s) ==
    LET refs  == SelectSeq(s.extends \o s.mixins, LAMBDA t : t.kind = "reference")
        named(n) == SelectSeq(m.structures, LAMBDA parent : parent.name = n)
        RECURSIVE all(_)
        all(q) == IF q = <<>> THEN <<>> ELSE named(Head(q).name) \o all(Tail(q))
    IN  all(refs)

\* collectProperties, the loop over s.Properties.
OwnProperties(s, includeProposed) ==
    SelectSeq(s.properties, LAMBDA p : ~SkipProperty(p, includeProposed))

\* A call of collectProperties(s): the parents it has still to flatten and the
\* properties appended so far.
Frame(m, s) == [s |-> s, parents |-> Parents(m, s), props |-> <<>>]

InitFlatten ==
    /\ model \in FlattenModels
    /\ config \in {[Types |-> {}, ResolveDeps |-> FALSE, IncludeProposed |-> ip] : ip \in BOOLEAN}
    /\ typeFilter = NilFilter
    /\ pc = "flatten"
    /\ pending = {}
    /\ input \in Range(model.structures)
    /\ stack = <<Frame(model, input)>>
    /\ expanded = {}
    /\ target \in {"kotlin", "groovy"}
    /\ types = newOrderedMap
    /\ orTypes = newOrderedMap
    /\ result = ""
    /\ err = ""
    /\ output = <<>>
    /\ RegistryAtStart

\* collectProperties calls itself on the next parent.
FlattenCall ==
    /\ pc = "flatten"
    /\ Head(stack).parents # <<>>
    /\ Len(stack) < MaxDepth
    /\ stack' = <<Frame(model, Head(Head(stack).parents))>> \o stack
    /\ UNCHANGED <<model, config, typeFilter, pc, pending, expanded, target, types, orTypes,
                   input, result, err, output>>
    /\ UNCHANGED regvars

\* The recursion has used up the stack: the Go runtime ends the program.
FlattenOverflow ==
    /\ pc = "flatten"
    /\ Head(stack).parents # <<>>
    /\ Len(stack) >= MaxDepth
    /\ pc' = "fatal"
    /\ err' = "stack overflow"
    /\ UNCHANGED <<model, config, typeFilter, pending, stack, expanded, target, types, orTypes,
                   input, result, output>>
    /\ UNCHANGED regvars

\* collectProperties appends the own properties and returns to the call that
\* made it, which appends what it gets.
FlattenReturn ==
    /\ pc = "flatten"
    /\ Head(stack).parents = <<>>
    /\ \E props \in {Head(stack).props \o OwnProperties(Head(stack).s, config.IncludeProposed)} :
          IF Len(stack) = 1
          THEN /\ output' = props
               /\ stack' = <<>>
               /\ pc' = "flattened"
          ELSE /\ stack' = <<[stack[2] EXCEPT !.parents = Tail(@), !.props = @ \o props]>>
                              \o SubSeq(stack, 3, Len(stack))
               /\ UNCHANGED <<output, pc>>
    /\ UNCHANGED <<model, config, typeFilter, pending, expanded, target, types, orTypes,
                   input, result, err>>
    /\ UNCHANGED regvars

NextFlatten ==
    \/ FlattenCall
    \/ FlattenOverflow
    \/ FlattenReturn

SpecFlatten == InitFlatten /\ [][NextFlatten]_vars

\* The generator keeps running until collectProperties returns or the program ends.
SpecFlattenFair == SpecFlatten /\ WF_vars(NextFlatten)

-----------------------------------------------------------------------------
(* What the schema says, independently of the resolver: the reference graph *)

\* The names a type node mentions, at any depth.
RECURSIVE TypeRefs(_)
TypeRefs(t) ==
    IF t = NilT THEN {}
    ELSE CASE t.kind = "reference" -> {t.name}
           [] t.kind = "array" -> TypeRefs(t.element)
           [] t.kind = "map" ->
                TypeRefs(t.key) \cup (IF IsTypeValue(t.value) THEN TypeRefs(t.value) ELSE {})
           [] t.kind \in {"or", "and", "tuple"} ->
                UNION {TypeRefs(t.items[i]) : i \in 1..Len(t.items)}
           [] t.kind = "literal" ->
                IF IsLiteralValue(t.value)
                THEN UNION {TypeRefs(t.value.properties[i].type) :
                                i \in 1..Len(t.value.properties)}
                ELSE {}
           [] OTHER -> {}

StructureNames(m) == {m.structures[i].name : i \in 1..Len(m.structures)}
AliasNames(m)     == {m.typeAliases[i].name : i \in 1..Len(m.typeAliases)}
EnumNames(m)      == {m.enumerations[i].name : i \in 1..Len(m.enumerations)}
DeclaredNames(m)  == StructureNames(m) \cup AliasNames(m) \cup EnumNames(m)

StructureNamed(m, n) == CHOOSE s \in Range(m.structures) : s.name = n
AliasNamed(m, n)     == CHOOSE a \in Range(m.typeAliases) : a.name = n

\* The names the declaration of n mentions; with withProposed, through proposed
\* properties too. An enumeration and an undeclared name mention nothing.
DirectRefs(m, n, withProposed) ==
    IF n \in StructureNames(m)
    THEN LET s == StructureNamed(m, n)
         IN  UNION {TypeRefs(s.properties[i].type) :
                        i \in {j \in 1..Len(s.properties) :
                                   withProposed \/ ~s.properties[j].proposed}}
             \cup UNION {TypeRefs(s.extends[i]) : i \in 1..Len(s.extends)}
             \cup UNION {TypeRefs(s.mixins[i]) : i \in 1..Len(s.mixins)}
    ELSE IF n \in AliasNames(m) THEN TypeRefs(AliasNamed(m, n).type)
    ELSE {}

\* The least set holding S and closed under DirectRefs.
RECURSIVE Closure(_, _, _)
Closure(m, S, withProposed) ==
    LET next == S \cup UNION {DirectRefs(m, n, withProposed) : n \in S}
    IN  IF next = S THEN S ELSE Closure(m, next, withProposed)

\* Whether the declaration of n is marked proposed.
ProposedDecl(m, n) ==
    \/ \E i \in 1..Len(m.structures) : m.structures[i].name = n /\ m.structures[i].proposed
    \/ \E i \in 1..Len(m.enumerations) : m.enumerations[i].name = n /\ m.enumerations[i].proposed
    \/ \E i \in 1..Len(m.typeAliases) : m.typeAliases[i].name = n /\ m.typeAliases[i].proposed

\* ResolveDeps ran on a non-nil filter and has returned.
Resolved == pc \notin {"start", "resolve"} /\ config.Types # {} /\ config.ResolveDeps

-----------------------------------------------------------------------------
(* Claims on dependency resolution *)

\* C1 as stated: the returned set holds every requested name and every name
\* reachable from them through structure properties (all of them), extends and
\* mixins, alias targets and nested type nodes.
C1_AllPropertiesFollowed ==
    Resolved => Closure(model, config.Types, TRUE) \subseteq typeFilter.names

\* C1 amended: the returned set holds every requested name and every name
\* reachable from them, where a proposed structure property is followed only
\* when includeProposed is set.
C1_ClosureContained ==
    Resolved => Closure(model, config.Types, config.IncludeProposed) \subseteq typeFilter.names

\* Range {start: Position, end: Position} requested alone: both names are returned.
C1_Witness ==
    /\ Resolved
    /\ config.Types = {NameA}
    /\ NameA \in StructureNames(model)
    /\ Len(StructureNamed(model, NameA).properties) = 2
    /\ DirectRefs(model, NameA, FALSE) = {NameB}
    /\ typeFilter.names = {NameA, NameB}

\* C2: the returned set holds no name besides the requested names and the names
\* reachable from them, and resolving an enumeration's name makes no further call.
C2_NothingElse ==
    /\ Resolved =>
          typeFilter.names \subseteq Closure(model, config.Types, config.IncludeProposed)
    /\ \A e \in EnumNames(model) :
          collectDeps(model, e, {}, config.IncludeProposed).calls = <<>>

\* The alias chain Outer -> Inner -> string resolves to exactly {Outer, Inner}.
C2_Witness ==
    /\ Resolved
    /\ config.Types = {NameA}
    /\ NameA \in AliasNames(model) /\ AliasNamed(model, NameA).type = Ref(NameB)
    /\ NameB \in AliasNames(model) /\ AliasNamed(model, NameB).type = StringT
    /\ typeFilter.names = {NameA, NameB}

\* The weight of a pending call: the invocations it stands for when nothing it
\* reaches is explored again.
RECURSIVE Weight(_)
Weight(c) ==
    IF c.call = "collectDeps" THEN 1
    ELSE LET cs == collectTypeRefs(c.t)
             sum[i \in 0..Len(cs)] == IF i = 0 THEN 0 ELSE sum[i - 1] + Weight(cs[i])
         IN  1 + sum[Len(cs)]

SumWeights(cs) ==
    LET sum[i \in 0..Len(cs)] == IF i = 0 THEN 0 ELSE sum[i - 1] + Weight(cs[i])
    IN  sum[Len(cs)]

RECURSIVE BodyWeights(_)
BodyWeights(S) ==
    IF S = {} THEN 0
    ELSE LET n == CHOOSE x \in S : TRUE
         IN  SumWeights(DepCalls(model, n, config.IncludeProposed)) + BodyWeights(S \ {n})

\* A bound on the invocations ResolveDeps still has to make in a state where the
\* call stack is st, the names still to be requested are pend and the visited
\* names are exp: the pending calls, two per name still to be requested, and the
\* bodies of the names not yet visited.
RankOf(p, st, pend, exp) ==
    IF p # "resolve" THEN 0
    ELSE 1 + SumWeights(st) + 2 * Cardinality(pend)
           + BodyWeights((StructureNames(model) \cup AliasNames(model)) \ exp)

Rank == RankOf(pc, stack, pending, expanded)

\* Structure A references only B, B references only A, and A alone is requested.
CycleRequested ==
    /\ config.Types = {NameA}
    /\ {NameA, NameB} \subseteq StructureNames(model)
    /\ DirectRefs(model, NameA, config.IncludeProposed) = {NameB}
    /\ DirectRefs(model, NameB, config.IncludeProposed) = {NameA}

\* C3: resolution terminates on every model, cyclic ones included: every step of
\* ResolveDeps strictly lowers Rank, which is never negative, so no run of it is
\* infinite; and for A <-> B with A requested the step that returns yields
\* exactly {A, B}.
C3_Terminates ==
    [][/\ pc = "resolve" =>
            /\ RankOf(pc', stack', pending', expanded') < Rank
            /\ RankOf(pc', stack', pending', expanded') >= 0
       /\ Resolved' /\ CycleRequested' => typeFilter'.names = {NameA, NameB}]_vars

C3_Witness == Resolved /\ CycleRequested /\ typeFilter.names = {NameA, NameB}

\* A structure requested alone, S, whose declaration mentions exactly one other name, D.
OnlyDependency(S, D) ==
    /\ config.Types = {S}
    /\ S \in StructureNames(model)
    /\ D # S
    /\ DirectRefs(model, S, TRUE) = {D}

\* S mentions D in proposed properties only.
OnlyThroughProposedProperty(S, D) ==
    /\ OnlyDependency(S, D)
    /\ DirectRefs(model, S, FALSE) = {}

Undeclared(m, S, withProposed) == Closure(m, S, withProposed) \ DeclaredNames(m)

C22_ModelNeverMutated ==
    [][/\ model' = model /\ config' = config
       /\ pc = "start" /\ pc' = "resolve" => expanded' = {} /\ typeFilter' = typeFilter
       /\ pc = "resolve" /\ pc' = "resolve" =>
             /\ typeFilter' = typeFilter
             /\ types' = types /\ orTypes' = orTypes /\ output' = output
       /\ pc' = "done" => typeFilter' = typeFilter /\ expanded' = expanded]_vars

\* A run that resolved {Alpha} to a larger set and generated from it: the
\* requested names are still {Alpha}.
C22_Witness ==
    /\ pc = "done"
    /\ config.Types = {NameA} /\ config.ResolveDeps
    /\ typeFilter.names = expanded
    /\ config.Types # expanded
    /\ orTypes # newOrderedMap

\* C23: ResolveDeps called with a nil filter returns nil and visits nothing,
\* whatever the model and includeProposed.
C23_NilIsNoOp ==
    pc = "returned" /\ typeFilter.nil =>
        result = NilFilter /\ expanded = {} /\ stack = <<>> /\ pending = {}

\* ResolveDeps(m, nil, true) on a model with structures has returned nil.
C23_Witness ==
    /\ pc = "returned" /\ typeFilter.nil
    /\ config.IncludeProposed
    /\ model.structures # <<>>
    /\ result = NilFilter

\* ResolveDeps called with the empty map returns an empty map, not nil.
C23_EmptyIsNotNil ==
    pc = "returned" /\ typeFilter = Filter({}) => result = Filter({})

-----------------------------------------------------------------------------
(* Claims on the registry *)

\* The last call of g was a Register that panicked.
Panicked(g) == gor[g].pc = "idle" /\ gor[g].op = "Register" /\ gor[g].out = "panic"

\* C25: a Register that finds its name registered panics; the panic leaves the
\* registry as it was, so the name still maps to the generator registered
\* first, and the generator of a panicked Register is never in the registry.
C25_DuplicatePanics ==
    /\ [](\A g \in Goroutines :
             Panicked(g) => \A n \in DOMAIN registry : registry[n] # Passed(g))
    /\ [][\A g \in Goroutines :
             /\ gor[g].pc = "exists" /\ gor'[g].pc # "exists"
                   /\ gor[g].name \in DOMAIN registry => gor'[g].pc = "panic"
             /\ gor[g].pc = "panic" /\ gor'[g].pc # "panic" =>
                   /\ gor'[g].out = "panic"
                   /\ registry' = registry
                   /\ gor[g].name \in DOMAIN registry
                   /\ registry[gor[g].name] # Passed(g)]_vars

\* Goroutine 1 registered "go", the Register of goroutine 2 for "go" panicked,
\* and the Get of goroutine 3 returned the generator of goroutine 1.
C25_Witness ==
    /\ gor[1].op = "Register" /\ gor[1].name = "go" /\ gor[1].out = "returned"
    /\ Panicked(2) /\ gor[2].name = "go"
    /\ gor[3].pc = "idle" /\ gor[3].op = "Get" /\ gor[3].name = "go"
    /\ gor[3].out = Passed(1)
    /\ registry["go"] = Passed(1)

\* The goroutines between Lock and Unlock, and those between RLock and RUnlock.
Writing == {g \in Goroutines : gor[g].pc \in {"exists", "insert", "panic", "make", "Unlock"}}
Reading == {g \in Goroutines : gor[g].pc = "read"}

\* C27: at most one goroutine is inside Register or Reset and none reads the
\* map meanwhile; a Register inserts only while its name is still unregistered
\* and panics only while it is registered, so of the Register calls for one
\* name one inserts and the others panic.
C27_RegisterAtomic ==
    /\ [](Cardinality(Writing) <= 1 /\ (Writing # {} => Reading = {}))
    /\ [][\A g \in Goroutines :
             /\ gor[g].pc = "insert" /\ gor'[g].pc # "insert" =>
                   gor[g].name \notin DOMAIN registry
             /\ gor[g].pc = "panic" /\ gor'[g].pc # "panic" =>
                   gor[g].name \in DOMAIN registry]_vars

\* Three goroutines each made one call, Register for "go": one returned and two
\* panicked.
C27_Witness ==
    /\ \A g \in Goroutines :
          gor[g].pc = "idle" /\ gor[g].calls = 1 /\ gor[g].op = "Register" /\ gor[g].name = "go"
    /\ Cardinality({g \in Goroutines : gor[g].out = "returned"}) = 1
    /\ Cardinality({g \in Goroutines : Panicked(g)}) = MaxGoroutines - 1

\* C28: once a Register has panicked, every call a goroutine is in returns.
C28_PanicReleasesLock ==
    \A g \in Goroutines :
        ((\E h \in Goroutines : Panicked(h)) /\ gor[g].pc # "idle") ~> (gor[g].pc = "idle")

\* The Register of goroutine 1 panicked, and goroutine 2 holds the lock in a
\* Reset it is making.
C28_Witness ==
    /\ Panicked(1)
    /\ gor[2].pc = "make"
    /\ mu.writer = 2

-----------------------------------------------------------------------------
(* generators/proto: the enums of schemas whose enumerations have values *)

\* The longest list of values of an enumeration.
MaxValues == 2

ValueMenu ==
    {Float64(0), Float64(1), Float64(2), Float64(4), Float64(-2), GoInt(0), GoInt(1),
     GoString("relative"), GoOther}

ValueLists ==
    {<<>>}
    \cup {<<EnumValue("Type", a)>> : a \in ValueMenu}
    \cup {<<EnumValue("Type", a), EnumValue("Parameter", b)>> : a \in ValueMenu, b \in ValueMenu}

EnumModels ==
    {[structures |-> <<>>, typeAliases |-> <<>>,
      enumerations |-> <<[name |-> n, type |-> Base("uinteger"), proposed |-> FALSE,
                          values |-> vs]>>] :
        n \in {"InlayHintKind", "TokenFormat"}, vs \in {x \in ValueLists : Len(x) <= MaxValues}}

InitEnum ==
    /\ model \in EnumModels
    /\ config = [Types |-> {}, ResolveDeps |-> FALSE, IncludeProposed |-> FALSE]
    /\ typeFilter = NewTypeFilter(config)
    /\ pc = "generate"
    /\ pending = {}
    /\ stack = <<>>
    /\ expanded = {}
    /\ target = "none"
    /\ types = newOrderedMap
    /\ orTypes = newOrderedMap
    /\ input = ""
    /\ result = ""
    /\ err = ""
    /\ output = <<>>
    /\ RegistryAtStart

NextEnum == ProtoGenerate

SpecEnum == InitEnum /\ [][NextEnum]_vars

-----------------------------------------------------------------------------
(* Claims on the proto3 enums *)

\* The enums of the file proto Generate has written, each with the enumeration
\* of the schema it was generated from.
GeneratedEnums ==
    IF pc = "done" /\ target = "proto"
    THEN UNION {{[enum |-> types.enums[i], values |-> ValuesOf(e)] :
                    e \in {x \in Range(model.enumerations) : x.name = types.enums[i].decl}} :
                i \in 1..Len(types.enums)}
    ELSE {}

\* A defined value is 0: a number whose value is zero.
IsZero(v) == v.value.type \in {"float64", "int"} /\ v.value.n = 0
Unspecified(g) == toEnumPrefix(g.enum.decl) \o "_UNSPECIFIED"

\* C30: the first value of every generated enum has number 0; UNSPECIFIED = 0
\* is prepended exactly when no defined value is 0, and otherwise the defined
\* zero value is the first entry.
C30_FirstIsZero ==
    \A g \in GeneratedEnums :
        /\ g.enum.values # <<>>
        /\ g.enum.values[1].number = 0
        /\ (g.enum.values[1].name = Unspecified(g))
              <=> ~\E i \in 1..Len(g.values) : IsZero(g.values[i])
        /\ (\E i \in 1..Len(g.values) : IsZero(g.values[i]))
              => \E i \in 1..Len(g.values) :
                    /\ IsZero(g.values[i])
                    /\ g.enum.values[1].name = toEnumValueName(toEnumPrefix(g.enum.decl),
                                                               g.values[i].name)

\* What holds of generateEnum: a value numbered 0 is listed in every generated
\* enum, and UNSPECIFIED = 0 is the first entry exactly when no defined number
\* converts to 0; a defined zero stays where the schema lists it.
C30_ZeroListed ==
    \A g \in GeneratedEnums :
        /\ \E i \in 1..Len(g.enum.values) : g.enum.values[i].number = 0
        /\ (g.enum.values[1].name = Unspecified(g) /\ g.enum.values[1].number = 0)
              <=> ~hasZeroValue(g.values)

\* The schema lists a zero value after a value that is not zero.
C30_ZeroNotFirst ==
    \E g \in GeneratedEnums :
        /\ Len(g.values) = 2
        /\ ~IsZero(g.values[1])
        /\ IsZero(g.values[2])
        /\ g.enum.values[1].number # 0

-----------------------------------------------------------------------------
(* Claims on flattening *)

\* C29: collectProperties returns, whatever the extends and mixins of the model.
C29_Terminates == <>(pc = "flattened")

\* The names of the structures a structure named n extends or mixes in.
ParentNames(m, n) ==
    UNION {{t.name : t \in {x \in Range(s.extends \o s.mixins) : x.kind = "reference"}} :
              s \in {x \in Range(m.structures) : x.name = n}}

\* The names n reaches through extends and mixins, in one step or more.
RECURSIVE Ancestors(_, _)
Ancestors(m, S) ==
    LET next == S \cup UNION {ParentNames(m, n) : n \in S}
    IN  IF next = S THEN S ELSE Ancestors(m, next)

\* No structure reaches itself through extends and mixins.
Acyclic(m) ==
    \A s \in Range(m.structures) : s.name \notin Ancestors(m, ParentNames(m, s.name))

\* C29 for the models whose extends and mixins form no cycle.
C29_TerminatesAcyclic == Acyclic(model) ~> (pc = "flattened")

\* No call of collectProperties on a structure is made inside a call on the
\* same structure.
C29_NoReentry ==
    \A i \in 1..Len(stack) : \A j \in 1..Len(stack) :
        i # j /\ "s" \in DOMAIN stack[i] /\ "s" \in DOMAIN stack[j] => stack[i].s # stack[j].s

-----------------------------------------------------------------------------
(* Claims on parsing *)

\* The kinds of TypeNode a document may use.
ParsedKinds ==
    {"base", "reference", "array", "map", "literal", "stringLiteral", "or", "and", "tuple"}

\* The type nodes at and below t: t itself, its items, element and key, the
\* value of a map and the property types of a literal. t is a node of a
\* document or of a parsed model; null and strings are no nodes.
RECURSIVE TypeNodes(_)
TypeNodes(t) ==
    IF t.kind \in {"nil", "string", "object"} THEN {}
    ELSE IF t.kind = "Literal" THEN {t}
    ELSE {t} \cup UNION {TypeNodes(t.items[i]) : i \in 1..Len(t.items)}
             \cup TypeNodes(t.element) \cup TypeNodes(t.key)
             \cup (IF t.kind = "map" THEN TypeNodes(t.value) ELSE {})
             \cup (IF t.kind = "literal" /\ t.value.kind = "Literal"
                   THEN UNION {TypeNodes(t.value.properties[i].type) :
                                   i \in 1..Len(t.value.properties)}
                   ELSE {})

\* The type nodes of a document or of a model of type aliases.
AliasTypeNodes(d) == UNION {TypeNodes(d.typeAliases[i].type) : i \in 1..Len(d.typeAliases)}

\* A type node whose kind is none of the nine, the missing kind included (an
\* object without kind is written as a Literal record or with kind "").
OtherKind(t) == t.kind \notin ParsedKinds

\* C19: when some type node of the document, at any depth, carries a kind other
\* than the nine (or none), parsing returns an error and no model; and a model
\* is returned only without an error.
C19_UnknownKindFails ==
    pc = "parsed" =>
        /\ (\E t \in AliasTypeNodes(input) : OtherKind(t)) => err # "" /\ model = NilModel
        /\ err # "" <=> model = NilModel

\* A document whose first alias is well formed and whose second holds a type of
\* an unknown kind two arrays deep: no model.
C19_Witness ==
    /\ pc = "parsed"
    /\ input.typeAliases[1].type = GoodLeaf
    /\ input.typeAliases[2].type = Array(Array(BadLeaf))
    /\ err # "" /\ model = NilModel

\* The fields of t that belong to other kinds are empty, and the name, element,
\* key and value that belong to its own kind are there.
OwnFieldsOnly(t) ==
    /\ t.name # "" <=> t.kind \in {"base", "reference"}
    /\ t.items # <<>> => t.kind \in {"or", "and", "tuple"}
    /\ t.element # NilT <=> t.kind = "array"
    /\ t.key # NilT <=> t.kind = "map"
    /\ t.value # NilT <=> t.kind \in {"map", "literal", "stringLiteral"}

\* C20 as stated: every type node of a successfully parsed model has the fields
\* of its own kind populated and those of the other kinds empty.
C20_ExactlyOneFieldSet ==
    pc = "parsed" /\ err = "" => \A t \in AliasTypeNodes(model) : OwnFieldsOnly(t)

\* The same for the documents whose type nodes carry the fields of their own
\* kind and no other.
C20_OwnFieldsKept ==
    /\ pc = "parsed" /\ err = ""
    /\ \A t \in AliasTypeNodes(input) : OwnFieldsOnly(t)
    => \A t \in AliasTypeNodes(model) : OwnFieldsOnly(t)

-----------------------------------------------------------------------------
(* Claims on lowering *)

\* The lowering of t by target tg on a fresh generator, in the run's schema and configuration.
LowerOf(tg, t) ==
    CASE tg = "go"     -> goType(Generator(model, config), newOrderedMap, t)
      [] tg = "kotlin" -> kotlinType(Generator(model, config), newOrderedMap, t, FALSE)
      [] tg = "groovy" -> groovyType(Generator(model, config), newOrderedMap, t, FALSE)

\* The targets whose lowering returns a type string and never an error.
TypeLowerers == {"go", "kotlin", "groovy"}

\* The lowering of input by one of the targets tgs has returned.
LoweredTo(tgs) == pc = "lowered" /\ target \in tgs

\* The optional wrapper of each target: a Go pointer, a Kotlin nullable type, and
\* in Groovy the type itself (every object type is nullable).
Optional(tg, str) ==
    CASE tg = "go"     -> "*" \o str
      [] tg = "kotlin" -> str \o "?"
      [] tg = "groovy" -> str

\* The any type of each target.
AnyType(tg) ==
    CASE tg = "go" -> "any" [] tg = "kotlin" -> "Any" [] tg = "groovy" -> "Object"

\* The variant types a registered union holds.
VariantTypes(tg, info) == IF tg = "go" THEN info.itemNames ELSE TypeNames(info.variants)

IsNullBase(t) == t.kind = "base" /\ t.name = "null"

\* A union of exactly two items, one of which is the null base type.
TwoWithNull(t) ==
    t.kind = "or" /\ Len(t.items) = 2 /\ (IsNullBase(t.items[1]) \/ IsNullBase(t.items[2]))

\* The item of a TwoWithNull union that is not the one taken as the null.
OtherItem(t) == IF IsNullBase(t.items[1]) THEN t.items[2] ELSE t.items[1]

\* C7 as stated, for every target: a two-item union with a null item lowers to
\* Optional(lower(other item)), registering what lowering the other item registers.
C7_OptionalOfOther ==
    LoweredTo(TypeLowerers) /\ TwoWithNull(input) =>
        /\ result = Optional(target, LowerOf(target, OtherItem(input)).s)
        /\ orTypes = LowerOf(target, OtherItem(input)).ors

\* The same statement where the other item is not null itself; it holds on
\* every target and in both item orders.
C7_OptionalOfNonNull ==
    LoweredTo(TypeLowerers) /\ TwoWithNull(input) /\ ~IsNullBase(OtherItem(input)) =>
        /\ result = Optional(target, LowerOf(target, OtherItem(input)).s)
        /\ orTypes = LowerOf(target, OtherItem(input)).ors

\* The same statement for the Go target alone; it holds for [null, null] too.
C7_OptionalOfOtherGo ==
    pc = "lowered" /\ target = "go" /\ TwoWithNull(input) =>
        /\ result = Optional(target, LowerOf(target, OtherItem(input)).s)
        /\ orTypes = LowerOf(target, OtherItem(input)).ors

\* A union [T, null, U].
ThreeAroundNull(t) == t.kind = "or" /\ Len(t.items) = 3 /\ IsNullBase(t.items[2])

\* Whether proposed-exclusion drops the item: a reference to a declaration marked proposed.
DroppedAsProposed(item) ==
    ~config.IncludeProposed /\ item.kind = "reference" /\ ProposedDecl(model, item.name)

\* The identifier-safe name target tg gives an item.
IdentNameOf(tg, item) ==
    CASE tg = "go"     -> go_typeNameForIdent(item)
      [] tg = "kotlin" -> kotlin_typeNameForIdent(item)
      [] tg = "groovy" -> groovy_typeNameForIdent(item)

\* The result names a union registered with exactly the two variants lower(T), lower(U).
TwoVariantUnionOf(T, U) ==
    /\ exists(orTypes, result)
    /\ LET vs == VariantTypes(target, get(orTypes, result))
       IN  /\ Len(vs) = 2
           /\ Range(vs) = {LowerOf(target, T).s, LowerOf(target, U).s}

\* C8 as stated: [T, null, U] is not optional and lowers to a union of the two
\* variants T and U.
C8_TwoVariantUnion ==
    LoweredTo(TypeLowerers) /\ ThreeAroundNull(input) =>
        /\ ~IsOptional(input)
        /\ TwoVariantUnionOf(input.items[1], input.items[3])

\* C8 amended: [T, null, U] is not optional and lowers exactly as the two-item
\* union [T, U] of its non-null items does; that is a union of the two variants
\* T and U whenever neither is null, neither is dropped as a reference to a
\* proposed type, and the two have different identifier-safe names.
C8_NullStripped ==
    LoweredTo(TypeLowerers) /\ ThreeAroundNull(input) =>
        LET T == input.items[1]
            U == input.items[3]
        IN  /\ ~IsOptional(input)
            /\ ~IsNullBase(T) /\ ~IsNullBase(U) =>
                  /\ result = LowerOf(target, Or(<<T, U>>)).s
                  /\ orTypes = LowerOf(target, Or(<<T, U>>)).ors
                  /\ (/\ ~DroppedAsProposed(T) /\ ~DroppedAsProposed(U)
                      /\ IdentNameOf(target, T) # IdentNameOf(target, U))
                        => TwoVariantUnionOf(T, U)

\* [string, null, Alpha] lowered by Go: the union Or_Alpha_string of two variants.
C8_Witness ==
    /\ pc = "lowered" /\ target = "go"
    /\ input = Or(<<StringT, Null, Ref(NameA)>>)
    /\ result = "Or_Alpha_string"
    /\ get(orTypes, result).itemNames = <<"Alpha", "string">>

\* The items of a union left after dropping null items and, under
\* proposed-exclusion, references to proposed types.
Remaining(t) == SelectSeq(t.items, LAMBDA item : ~IsNullBase(item) /\ ~DroppedAsProposed(item))

RemainingIdentNames(tg, t) == {IdentNameOf(tg, Remaining(t)[i]) : i \in 1..Len(Remaining(t))}

\* A finite set of strings as the ascending sequence of its elements.
Ascending(S) == SortStrings(CHOOSE q \in [1..Cardinality(S) -> S] : Range(q) = S)

\* The union lowered is the registered union whose variants are the distinct
\* identifier-safe names of its remaining items, ascending; when they all share
\* one name no union is registered for it and the first such item's type is returned.
SortedDeduplicated(tg, t) ==
    LET names == RemainingIdentNames(tg, t)
    IN  IF Cardinality(names) = 1
        THEN result = LowerOf(tg, Remaining(t)[1]).s
        ELSE /\ result = "Or_" \o Join(Ascending(names), "_")
             /\ exists(orTypes, result)
             /\ Len(VariantTypes(tg, get(orTypes, result))) = Cardinality(names)

\* C11: every synthesized union holds a variant list sorted by identifier-safe
\* name without two variants of the same identifier-safe name, and a union whose
\* pairs all collide into one is lowered to that pair's type, not to a union.
C11_SortedDeduplicated ==
    LoweredTo(TypeLowerers) /\ input.kind = "or" /\ ~IsOptional(input) /\ Len(Remaining(input)) >= 2
        => SortedDeduplicated(target, input)

\* C11 in the Groovy lowering alone, the one that runs slices.CompactFunc.
C11_SortedDeduplicatedGroovy ==
    pc = "lowered" /\ target = "groovy" /\ input.kind = "or" /\ ~IsOptional(input)
        /\ Len(Remaining(input)) >= 2
        => SortedDeduplicated(target, input)

\* The same union with its items declared in the reverse order.
Reversed(t) == Or([i \in 1..Len(t.items) |-> t.items[Len(t.items) + 1 - i]])

\* What a fresh generator of target tg hands back for t: the type string and the
\* composite table (for proto the pending wrappers).
FreshLowering(tg, t) ==
    IF tg = "proto"
    THEN LET c == convertType(NewTypeResolver(model, config.IncludeProposed), <<>>, t)
         IN  Lowered(c.s, [m |-> c.pw, order |-> <<>>])
    ELSE LowerOf(tg, t)

\* Where the type string names a registered composite, that composite.
CompositeOf(l) == IF exists(l.ors, l.s) THEN get(l.ors, l.s) ELSE "none"

\* C12: the unions integer | string and string | integer lower to the identical
\* composite type, whichever target lowers them.
C12_OrderIndependent ==
    /\ pc = "lowered"
    /\ input \in {Or(<<IntegerT, StringT>>), Or(<<StringT, IntegerT>>)}
    => /\ result = FreshLowering(target, Reversed(input)).s
       /\ CompositeOf(Lowered(result, orTypes))
              = CompositeOf(FreshLowering(target, Reversed(input)))

\* C12 in the Go, Kotlin and Groovy lowerings, for every union whose remaining
\* items have pairwise different identifier-safe names: the reversed declaration
\* lowers to the same name and the same registered union.
C12_OrderIndependentSorted ==
    /\ LoweredTo(TypeLowerers) /\ input.kind = "or" /\ ~IsOptional(input)
    /\ Cardinality(RemainingIdentNames(target, input)) = Len(Remaining(input))
    => /\ result = LowerOf(target, Reversed(input)).s
       /\ CompositeOf(Lowered(result, orTypes))
              = CompositeOf(LowerOf(target, Reversed(input)))

\* C13: lowering the same TypeNode a second time within one run gives the same
\* type name and error as the first time, and leaves the composite table as it was.
C13_SecondLoweringSame ==
    [][pc = "lowered" /\ pc' = "relowered"
          => result' = result /\ err' = err /\ orTypes' = orTypes]_vars

\* integer | string lowered twice by Go: Or_int32_string, registered once.
C13_Witness ==
    /\ pc = "relowered" /\ target = "go"
    /\ input = Or(<<IntegerT, StringT>>)
    /\ result = "Or_int32_string"
    /\ orTypes.order = <<"Or_int32_string">>

\* The kinds of TypeNode the lowerers have a case for.
RecognizedKinds ==
    {"base", "reference", "array", "map", "literal", "stringLiteral",
     "integerLiteral", "booleanLiteral", "or", "and", "tuple"}

\* No node at all, or a node of a kind no lowerer has a case for.
Unrecognized(t) == t = NilT \/ t.kind \notin RecognizedKinds

\* C17: lowering never errors: whatever the node, nil and unrecognized kinds
\* included, it returns a type and no error, and for an unrecognized node the
\* type is the target's any type.
C17_NeverErrors ==
    pc = "lowered" =>
        /\ err = "" /\ result # ""
        /\ Unrecognized(input) /\ target \in TypeLowerers => result = AnyType(target)

\* C17 in the Go, Kotlin and Groovy lowerings, which have no error result.
C17_NeverErrorsTypeLowerers ==
    LoweredTo(TypeLowerers) =>
        /\ err = "" /\ result # ""
        /\ Unrecognized(input) => result = AnyType(target)

\* Other unions of the same schema, each of one item and the base type uinteger.
OtherUnions == {Or(<<item, Base("uinteger")>>) : item \in ItemMenu}

\* The union lowered and the union u, lowered by a generator of the same
\* target, do not share a synthesized name unless their variant types are the same.
NoSharedName(u) ==
    LET other == LowerOf(target, u)
    IN  other.s = result /\ exists(other.ors, other.s) =>
            VariantTypes(target, get(other.ors, other.s))
                = VariantTypes(target, get(orTypes, result))

\* C21: two unions with different variant types never receive the same
\* synthesized name.
C21_CollisionFree ==
    LoweredTo(TypeLowerers) /\ exists(orTypes, result) =>
        \A u \in OtherUnions : NoSharedName(u)

\* Whether every item of the union is a base type or a reference.
FlatUnion(t) ==
    t.kind = "or" /\ \A i \in 1..Len(t.items) : t.items[i].kind \in {"base", "reference"}

\* C26: no lowering changes or removes what the composite table holds: every
\* name registered stays registered with the definition recorded first, and the
\* names stay in the order of their registration.
C26_TableOnlyGrows ==
    [][/\ \A k \in DOMAIN orTypes.m :
             k \in DOMAIN orTypes'.m /\ orTypes'.m[k] = orTypes.m[k]
       /\ Len(orTypes'.order) >= Len(orTypes.order)
       /\ SubSeq(orTypes'.order, 1, Len(orTypes.order)) = orTypes.order]_vars

\* Go lowered (string | integer) | uinteger and later (Alpha | null) | uinteger,
\* which takes the same name: the definition recorded first is still there.
C26_Witness ==
    /\ pc = "next" /\ target = "go"
    /\ input = Or(<<Or(<<Ref(NameA), Null>>), Base("uinteger")>>)
    /\ result = "Or_Union_uint32"
    /\ exists(orTypes, result)
    /\ get(orTypes, result).itemNames = <<"Or_int32_string", "uint32">>

\* C24: NonNullType of an optional type is one of its items and not the null
\* base type, and NonNullType is nil for a type that is not optional only.
C24_NonNullComponent ==
    pc = "lowered" =>
        /\ IsOptional(input) =>
              /\ NonNullType(input) \in Range(input.items)
              /\ ~IsNullBase(NonNullType(input))
        /\ NonNullType(input) = NilT => ~IsOptional(input)

\* C24 for the optional types that hold an item other than null, and for the
\* types that are not optional.
C24_NonNullComponentMixed ==
    pc = "lowered" =>
        /\ IsOptional(input) /\ (\E i \in 1..2 : ~IsNullBase(input.items[i])) =>
              /\ NonNullType(input) \in Range(input.items)
              /\ ~IsNullBase(NonNullType(input))
        /\ ~IsOptional(input) => NonNullType(input) = NilT

\* C21 among the unions whose items are base types and references.
C21_CollisionFreeFlat ==
    LoweredTo(TypeLowerers) /\ exists(orTypes, result) /\ FlatUnion(input) =>
        \A u \in {v \in OtherUnions : FlatUnion(v)} : NoSharedName(u)

-----------------------------------------------------------------------------
(* Claims on the generated output *)

\* A generator ran on a configuration that excludes proposed features.
ProposedExcluded == pc = "done" /\ ~config.IncludeProposed

\* Whether structure sname of the schema has a property pname marked proposed.
ProposedProperty(m, sname, pname) ==
    \E s \in Range(m.structures) :
        s.name = sname /\ \E p \in Range(s.properties) : p.name = pname /\ p.proposed

\* The schema names of the declarations the output defines.
EmittedDecls ==
    IF target = "go" THEN DOMAIN types.m
    ELSE {types.aliases[i].decl : i \in 1..Len(types.aliases)}
         \cup {types.enums[i].decl : i \in 1..Len(types.enums)}
         \cup {types.messages[i].decl : i \in 1..Len(types.messages)}
         \cup {types.unions[i].decl : i \in 1..Len(types.unions)}

\* The (structure, property) pairs the output holds a field for.
EmittedFields ==
    IF target = "go"
    THEN UNION {{<<n, f.prop>> : f \in Range(types.m[n].fields)} :
                n \in {x \in DOMAIN types.m : types.m[x].sort = "struct"}}
    ELSE UNION {{<<types.messages[i].decl, l.prop>> :
                    l \in {x \in Range(types.messages[i].lines) : ~x.skipped}} :
                i \in 1..Len(types.messages)}

\* The variant type strings of the unions the output defines.
EmittedVariants ==
    IF target = "go"
    THEN UNION {Range(orTypes.m[k].itemNames) : k \in DOMAIN orTypes.m}
    ELSE UNION {{l.type : l \in Range(types.unions[i].oneof)} : i \in 1..Len(types.unions)}

\* C5 as stated: with the proposed flag off, the output of a target holds no
\* declaration marked proposed, no field of a property marked proposed, and no
\* union variant that is a reference to a type marked proposed.
C5_NothingProposedEmitted ==
    ProposedExcluded =>
        /\ \A n \in EmittedDecls : ~ProposedDecl(model, n)
        /\ \A sp \in EmittedFields : ~ProposedProperty(model, sp[1], sp[2])
        /\ \A n \in DeclaredNames(model) :
              ProposedDecl(model, n) =>
                  /\ ExportName(n) \notin EmittedVariants
                  /\ toProtoMessageName(n) \notin EmittedVariants

\* The same statement for the Go target alone.
C5_NothingProposedEmittedGo ==
    ProposedExcluded /\ target = "go" =>
        /\ \A n \in EmittedDecls : ~ProposedDecl(model, n)
        /\ \A sp \in EmittedFields : ~ProposedProperty(model, sp[1], sp[2])
        /\ \A n \in DeclaredNames(model) :
              ProposedDecl(model, n) => ExportName(n) \notin EmittedVariants

\* The type strings an emitted Go declaration mentions: embedded types, field
\* types and alias targets.
GoMentions(d) ==
    CASE d.sort = "struct" -> Range(d.embedded) \cup {f.type : f \in Range(d.fields)}
      [] d.sort = "alias"  -> {d.type}
      [] OTHER -> {}

\* Whether the emitted Go output refers to the schema type n: some declaration,
\* or some union it uses, names it.
GoReferenced(n) ==
    \/ \E k \in DOMAIN types.m : \E str \in GoMentions(types.m[k]) : Contains(str, ExportName(n))
    \/ \E k \in DOMAIN orTypes.m :
          \E str \in Range(orTypes.m[k].itemNames) : Contains(str, ExportName(n))

\* C6 as stated: for a requested subset with dependency resolution on, every
\* schema type the emitted Go declarations refer to is itself emitted.
C6_NoBrokenReferences ==
    pc = "done" /\ target = "go" /\ config.Types # {} /\ config.ResolveDeps =>
        \A n \in DeclaredNames(model) : GoReferenced(n) => n \in DOMAIN types.m

\* The same statement for runs that include proposed features.
C6_NoBrokenReferencesWithProposed ==
    pc = "done" /\ target = "go" /\ config.Types # {} /\ config.ResolveDeps
                /\ config.IncludeProposed =>
        \A n \in DeclaredNames(model) : GoReferenced(n) => n \in DOMAIN types.m

\* C9 as stated: no union composite is synthesized or emitted for a two-item
\* union containing null: the proto output holds no oneof message for an alias
\* whose target is such a union, and no Go union is registered for one.
C9_OptionalNeverUnion ==
    pc = "done" =>
        /\ target = "proto" =>
              \A i \in 1..Len(types.unions) :
                  ~IsOptional(AliasNamed(model, types.unions[i].decl).type)
        /\ target = "go" =>
              \A a \in Range(model.typeAliases) :
                  (a.name \in DOMAIN types.m /\ IsOptional(a.type))
                      => ~exists(orTypes, types.m[a.name].type)

\* The same statement for the Go target alone.
C9_OptionalNeverUnionGo ==
    pc = "done" /\ target = "go" =>
        \A a \in Range(model.typeAliases) :
            (a.name \in DOMAIN types.m /\ IsOptional(a.type))
                => ~exists(orTypes, types.m[a.name].type)

\* The positions of the output that define the name n.
DefinitionsOf(n) == {i \in 1..Len(output) : output[i].name = n}

\* The names of the composites the generator registered during the run.
RegisteredNames == {orTypes.m[k].name : k \in DOMAIN orTypes.m}

\* The names of the structures whose emitted fields mention the type string str.
GoStructuresUsing(str) ==
    {n \in DOMAIN types.m :
        types.m[n].sort = "struct" /\ \E f \in Range(types.m[n].fields) : f.type = str}

\* C14: within one run every synthesized composite the generator registered is
\* defined exactly once in the output, however many places of the schema need
\* it, and the output holds no synthesized definition that was not registered.
C14_DefinedOnce ==
    pc = "done" =>
        /\ \A n \in RegisteredNames : Cardinality(DefinitionsOf(n)) = 1
        /\ \A i \in 1..Len(output) : output[i].synthesized => output[i].name \in RegisteredNames

\* Go: two structures both hold a field of the union Or_Beta_XGamma_int32, which
\* the file defines once.
C14_Witness ==
    /\ pc = "done" /\ target = "go"
    /\ Cardinality(GoStructuresUsing("Or_Beta_XGamma_int32")) = 2
    /\ Cardinality(DefinitionsOf("Or_Beta_XGamma_int32")) = 1

\* The filter a run generates from, computed without visiting anything in an
\* order: the requested names closed under the references resolution follows.
OrderFreeFilter ==
    IF config.Types # {} /\ config.ResolveDeps
    THEN Filter(Closure(model, config.Types, config.IncludeProposed))
    ELSE NewTypeFilter(config)

\* The file a run of target tg writes from the order-free filter, the wrapper
\* names taken in ascending order.
OrderFreeOutput(tg) ==
    IF tg = "go"
    THEN generateProtocolFile(go_Generate(model, config, OrderFreeFilter))
    ELSE proto_definitions(
             proto_Generate(model, config, OrderFreeFilter,
                 Ascending(DOMAIN proto_declarations(model, config, OrderFreeFilter).pw)).file)

\* C15: the output of a run is a function of the schema and the flags alone:
\* whatever order dependency resolution visits the requested names in and
\* whatever order a map iteration yields the registered composites in, the
\* definitions written and their order are the same.
C15_Deterministic ==
    pc = "done" => output = OrderFreeOutput(target)

\* proto, two names requested with dependency resolution, two wrappers written.
C15_Witness ==
    /\ pc = "done" /\ target = "proto"
    /\ Cardinality(config.Types) = 2 /\ config.ResolveDeps
    /\ Cardinality({i \in 1..Len(output) : output[i].synthesized}) = 2

\* C16: the synthesized wrapper and union types are written after every
\* directly-named type, in ascending order of their names, whatever order they
\* were registered in.
C16_SynthesizedLastAscending ==
    pc = "done" =>
        \A i, j \in 1..Len(output) :
            /\ output[i].synthesized /\ ~output[j].synthesized => j < i
            /\ output[i].synthesized /\ output[j].synthesized /\ i < j
                  => Compare(output[i].name, output[j].name) < 0

\* Go: directly-named types and two unions that were not registered in the
\* ascending order of their names.
C16_Witness ==
    /\ pc = "done" /\ target = "go"
    /\ \E j \in 1..Len(output) : ~output[j].synthesized
    /\ Len(orTypes.order) = 2
    /\ Compare(orTypes.order[1], orTypes.order[2]) > 0

====
